---------------------------- MODULE Spec2Model ----------------------------
(* Heron tennis ladder: the ladder ranking engine of src/src/App.jsx (the    *)
(* cloud variant) and of the localStorage variant kept in src/api/admin.js.  *)
(*                                                                           *)
(* A string is a sequence of one-character strings, so that trimming,        *)
(* splitting and number conversion are computed and not assumed.             *)
(* A player id `p<i>` is the integer i.  The roster is the array `players`   *)
(* in its array order, which no transaction changes.                         *)
EXTENDS Integers, Sequences, FiniteSets, TLC

(***************************************************************************)
(* Bounds of the model.                                                    *)
(***************************************************************************)
\* Roster slots (CAPACITY is 60 in the source; the model runs a small ladder).
CAPACITY == 4
\* Active player count after construction (40 in the source).
DEFAULT_PLAYER_COUNT == 3
\* Matches ever added in one behaviour (uid() never repeats an id).
MaxAdds == 2
\* The same, in the specifications that add other inputs to the transactions.
MaxAddsSmall == 1
\* Roster size of the ladder-move round-trip harness.
LadderSize == 4

\* the longest sequence of sets validateSets is tried on
MaxSets == 3
\* the longest score string parseScore is tried on
MaxScoreLen == 5
\* the longest string of the whitespace check of parseScore
MaxSpacedLen == 7
\* transactions posted to the store in one behaviour of the awaited saves
MaxPosts == 2
\* Deletes and Edits tried on a target that is not in the log
MaxTries == 2
\* loads started by realtime events in one behaviour
MaxLoads == 2

(***************************************************************************)
(* State.                                                                  *)
(***************************************************************************)
VARIABLES
  variant,      \* "cloud": src/src/App.jsx; "local": the App of src/api/admin.js
  tzWest,       \* the browser's time zone is west of UTC
  players,      \* state.players
  matches,      \* state.matches, newest first
  playerCount,  \* state.playerCount
  locked,       \* locked
  error,        \* error, the match form's message
  editError,    \* editError, the edit modal's message
  nextId,       \* the ids uid() has handed out so far
  harness       \* the operands of the ladder-move round trip (SpecLadder), the
                \* phase of an add-then-delete run (SpecUndo)

vars == <<variant, tzWest, players, matches, playerCount, locked, error, editError,
          nextId, harness>>

(***************************************************************************)
(* Characters and strings.                                                 *)
(***************************************************************************)
NL == "\n"
TAB == "\t"
SP == " "
Digits == {"0", "1", "2", "3", "4", "5", "6", "7", "8", "9"}

DigitVal(c) ==
  CASE c = "0" -> 0 [] c = "1" -> 1 [] c = "2" -> 2 [] c = "3" -> 3
    [] c = "4" -> 4 [] c = "5" -> 5 [] c = "6" -> 6 [] c = "7" -> 7
    [] c = "8" -> 8 [] c = "9" -> 9

IsSpaceChar(c) == c \in {SP, NL, TAB}

RECURSIVE TrimLeft(_)
TrimLeft(s) ==
  IF s # <<>> /\ IsSpaceChar(Head(s)) THEN TrimLeft(Tail(s)) ELSE s

RECURSIVE TrimRight(_)
TrimRight(s) ==
  IF s # <<>> /\ IsSpaceChar(s[Len(s)]) THEN TrimRight(SubSeq(s, 1, Len(s) - 1)) ELSE s

\* String.prototype.trim
Trim(s) == TrimRight(TrimLeft(s))

\* s.split(c).join(d) for one-character c and d
ReplaceAll(s, c, d) == [i \in 1..Len(s) |-> IF s[i] = c THEN d ELSE s[i]]

HasDoubleSpace(s) == \E i \in 1..(Len(s) - 1) : s[i] = SP /\ s[i + 1] = SP

\* one pass of cleaned.split("  ").join(" "): every pair of spaces, left to right
RECURSIVE CollapseOnce(_)
CollapseOnce(s) ==
  IF Len(s) < 2 THEN s
  ELSE IF s[1] = SP /\ s[2] = SP THEN <<SP>> \o CollapseOnce(SubSeq(s, 3, Len(s)))
  ELSE <<s[1]>> \o CollapseOnce(Tail(s))

\* while (cleaned.includes("  ")) cleaned = cleaned.split("  ").join(" ")
RECURSIVE CollapseSpaces(_)
CollapseSpaces(s) == IF HasDoubleSpace(s) THEN CollapseSpaces(CollapseOnce(s)) ELSE s

\* s.split(c): the pieces between the occurrences of c, empty pieces kept
RECURSIVE SplitOn(_, _)
SplitOn(s, c) ==
  IF \A i \in 1..Len(s) : s[i] # c THEN <<s>>
  ELSE LET k == CHOOSE i \in 1..Len(s) : s[i] = c /\ \A j \in 1..(i - 1) : s[j] # c
       IN  <<SubSeq(s, 1, k - 1)>> \o SplitOn(SubSeq(s, k + 1, Len(s)), c)

\* .filter(Boolean) on an array of strings
RECURSIVE FilterNonEmpty(_)
FilterNonEmpty(ss) ==
  IF ss = <<>> THEN <<>>
  ELSE IF Head(ss) = <<>> THEN FilterNonEmpty(Tail(ss))
  ELSE <<Head(ss)>> \o FilterNonEmpty(Tail(ss))

Includes(s, c) == \E i \in 1..Len(s) : s[i] = c

\* A JavaScript number of the model: a finite integer, or NaN.
Num(n) == [finite |-> TRUE, val |-> n]
NaN == [finite |-> FALSE, val |-> 0]

RECURSIVE DecimalValue(_)
DecimalValue(s) ==
  IF s = <<>> THEN 0 ELSE 10 * DecimalValue(SubSeq(s, 1, Len(s) - 1)) + DigitVal(s[Len(s)])

\* Number(x) on a string of the model's alphabet: "" is 0, a run of digits is
\* its value, anything else is NaN.
ToNumber(s) == IF \A i \in 1..Len(s) : s[i] \in Digits THEN Num(DecimalValue(s)) ELSE NaN

IsFinite(n) == n.finite

\* asNumber(x, fallback) on a string
asNumber(x, fallback) == IF IsFinite(ToNumber(x)) THEN ToNumber(x) ELSE fallback

clamp(n, min, max) ==
  LET lo == IF n > min THEN n ELSE min IN IF lo < max THEN lo ELSE max

clampMin0(n) == IF n > 0 THEN n ELSE 0

(***************************************************************************)
(* Score parsing, validation and aggregation.                              *)
(***************************************************************************)
MsgNoScore == "Please enter a score (e.g. 6-4 6-3)."
MsgCouldntRead == "Couldn't read set: "
MsgTwoSets == "Enter at least 2 sets (e.g. 6-4 6-3)."
MsgNegative == "Scores must be non-negative numbers."
MsgTiedSet == "A set can't be tied."
MsgTieBreak == "Match tie-break must be won by 2 points."
MsgImpossible == "Impossible set score. Use 6-x, 7-5, 7-6, or match tie-break 10+."
MsgTiedMatch == "Match can't end tied on sets. Add a deciding set / match tie-break."

ParseFail(msg, tok) == [valid |-> FALSE, sets |-> <<>>, message |-> msg, token |-> tok]

\* the body of parseScore's loop for one token: the set pair it pushes, or
\* ok = FALSE when the token is rejected
ParsePart(part) ==
  LET sep  == IF Includes(part, "-") THEN "-" ELSE ":"
      bits == SplitOn(part, sep)
      bad  == [ok |-> FALSE, p1 |-> 0, p2 |-> 0]
  IN  IF ~Includes(part, "-") /\ ~Includes(part, ":") THEN bad
      ELSE IF Len(bits) # 2 THEN bad
      ELSE LET p1 == asNumber(bits[1], NaN)
               p2 == asNumber(bits[2], NaN)
           IN  IF ~IsFinite(p1) \/ ~IsFinite(p2) THEN bad
               ELSE [ok |-> TRUE, p1 |-> p1.val, p2 |-> p2.val]

RECURSIVE ParseParts(_, _)
ParseParts(parts, sets) ==
  IF parts = <<>> THEN [valid |-> TRUE, sets |-> sets, message |-> "", token |-> <<>>]
  ELSE LET r == ParsePart(Head(parts))
       IN  IF ~r.ok THEN ParseFail(MsgCouldntRead, Head(parts))
           ELSE ParseParts(Tail(parts), Append(sets, [p1 |-> r.p1, p2 |-> r.p2]))

\* ParseScoreOf leaving the tabs in the tokens
ParseScoreOfTabsKept(scoreStr) ==
  LET raw     == Trim(scoreStr)
      cleaned == CollapseSpaces(ReplaceAll(raw, NL, SP))
      parts   == FilterNonEmpty(SplitOn(cleaned, SP))
  IN  IF raw = <<>> THEN ParseFail(MsgNoScore, <<>>) ELSE ParseParts(parts, <<>>)

\* parseScore, computed
ParseScoreOf(scoreStr) ==
  LET raw     == Trim(scoreStr)
      cleaned == CollapseSpaces(ReplaceAll(ReplaceAll(raw, NL, SP), TAB, SP))
      parts   == FilterNonEmpty(SplitOn(cleaned, SP))
  IN  IF raw = <<>> THEN ParseFail(MsgNoScore, <<>>) ELSE ParseParts(parts, <<>>)

\* The score strings a user of the model types, and what is stored of them.
Score_64_63 == <<"6", "-", "4", SP, "6", "-", "3">>
Score_46_67 == <<SP, "4", ":", "6", SP, "6", "-", "7">>
Score_Empty == <<SP>>
Score_Unreadable == <<"6", "x", "4", SP, "6", "-", "3">>
Score_65_64 == <<"6", "-", "5", SP, "6", "-", "4">>
ValidScores == {Score_64_63, Score_46_67}
BadScores == {Score_Empty, Score_Unreadable, Score_65_64}
Scores == ValidScores \cup BadScores
KnownScores == Scores \cup {Trim(s) : s \in Scores}

\* parseScore of the known strings, computed once
ParsedScores == [s \in KnownScores |-> ParseScoreOf(s)]

parseScore(scoreStr) ==
  IF scoreStr \in KnownScores THEN ParsedScores[scoreStr] ELSE ParseScoreOf(scoreStr)

Max(a, b) == IF a > b THEN a ELSE b
Min(a, b) == IF a < b THEN a ELSE b

\* SetVerdict letting a set to 6 be won against 5
SetVerdictSixFive(s) ==
  LET a  == s.p1
      b  == s.p2
      hi == Max(a, b)
      lo == Min(a, b)
  IN  IF a < 0 \/ b < 0 THEN MsgNegative
      ELSE IF a = b THEN MsgTiedSet
      ELSE IF hi >= 10 THEN (IF hi - lo < 2 THEN MsgTieBreak ELSE "")
      ELSE IF (hi = 6 /\ lo <= 5) \/ (hi = 7 /\ lo = 5) \/ (hi = 7 /\ lo = 6) THEN ""
      ELSE MsgImpossible

\* the verdict of validateSets' loop body on one set: "" when the set is legal
SetVerdict(s) ==
  LET a  == s.p1
      b  == s.p2
      hi == Max(a, b)
      lo == Min(a, b)
  IN  IF a < 0 \/ b < 0 THEN MsgNegative
      ELSE IF a = b THEN MsgTiedSet
      ELSE IF hi >= 10 THEN (IF hi - lo < 2 THEN MsgTieBreak ELSE "")
      ELSE IF (hi = 6 /\ lo <= 4) \/ (hi = 7 /\ lo = 5) \/ (hi = 7 /\ lo = 6) THEN ""
      ELSE MsgImpossible

RECURSIVE ValidateLoop(_, _, _)
ValidateLoop(sets, p1Sets, p2Sets) ==
  IF sets = <<>>
  THEN IF p1Sets = p2Sets THEN [ok |-> FALSE, message |-> MsgTiedMatch]
       ELSE [ok |-> TRUE, message |-> ""]
  ELSE IF SetVerdict(Head(sets)) # "" THEN [ok |-> FALSE, message |-> SetVerdict(Head(sets))]
  ELSE IF Head(sets).p1 > Head(sets).p2 THEN ValidateLoop(Tail(sets), p1Sets + 1, p2Sets)
  ELSE ValidateLoop(Tail(sets), p1Sets, p2Sets + 1)

validateSets(sets) ==
  IF Len(sets) < 2 THEN [ok |-> FALSE, message |-> MsgTwoSets]
  ELSE ValidateLoop(sets, 0, 0)

RECURSIVE computeFromSets(_)
computeFromSets(sets) ==
  IF sets = <<>> THEN [p1Sets |-> 0, p2Sets |-> 0, p1Games |-> 0, p2Games |-> 0]
  ELSE LET s == sets[Len(sets)]
           r == computeFromSets(SubSeq(sets, 1, Len(sets) - 1))
       IN  [p1Sets  |-> r.p1Sets + (IF s.p1 > s.p2 THEN 1 ELSE 0),
            p2Sets  |-> r.p2Sets + (IF s.p2 > s.p1 THEN 1 ELSE 0),
            p1Games |-> r.p1Games + s.p1,
            p2Games |-> r.p2Games + s.p2]

(***************************************************************************)
(* Dates.  A date string is "" (the date field cleared) or yyyy-mm-dd; the *)
(* model keeps its month and day.                                          *)
(***************************************************************************)
NoDate == [valid |-> FALSE, month |-> 0, day |-> 0]
IsoDate(m, d) == [valid |-> TRUE, month |-> m, day |-> d]

MonthKeys == {"apr", "may", "jun", "jul", "aug"}
NoKey == "null"

\* new Date("yyyy-mm-dd") is midnight UTC of that day; getMonth() reads it in
\* the local zone, so west of UTC the first of a month is still the month before.
LocalMonthIndex(dateISO, west) ==
  LET m == dateISO.month - 1
  IN  IF west /\ dateISO.day = 1 THEN (m + 11) % 12 ELSE m

monthKeyFromDateISO(dateISO) ==
  IF ~dateISO.valid THEN NoKey
  ELSE LET m == LocalMonthIndex(dateISO, tzWest)
       IN  IF m = 3 THEN "apr"
           ELSE IF m = 4 THEN "may"
           ELSE IF m = 5 THEN "jun"
           ELSE IF m = 6 THEN "jul"
           ELSE IF m = 7 THEN "aug"
           ELSE NoKey

(***************************************************************************)
(* Players and the ladder position engine.                                 *)
(***************************************************************************)
createEmptyPlayer(position) ==
  [pid |-> position, position |-> position, name |-> "",
   matchesPlayed |-> 0, matchesWon |-> 0, setsWon |-> 0, setsLost |-> 0,
   gamesWon |-> 0, gamesLost |-> 0,
   apr |-> 0, may |-> 0, jun |-> 0, jul |-> 0, aug |-> 0]

\* String(p.name || "").trim() is empty
IsUnnamed(p) == p.name \in {"", " "}

\* players.find((p) => p.pid === pid): the index of the first such player, 0 if none
FindByPid(ps, pid) ==
  IF \E i \in 1..Len(ps) : ps[i].pid = pid
  THEN CHOOSE i \in 1..Len(ps) :
         ps[i].pid = pid /\ \A j \in 1..(i - 1) : ps[j].pid # pid
  ELSE 0

\* players.find((p) => p.position === pos): the index of the first such player, 0 if none
FindByPosition(ps, pos) ==
  IF \E i \in 1..Len(ps) : ps[i].position = pos
  THEN CHOOSE i \in 1..Len(ps) :
         ps[i].position = pos /\ \A j \in 1..(i - 1) : ps[j].position # pos
  ELSE 0

applyLadderMoveAboveTarget(ps, challengerPid, opponentPos) ==
  LET c == FindByPid(ps, challengerPid)
  IN  IF c = 0 THEN [players |-> ps, applied |-> FALSE]
      ELSE IF ps[c].position <= opponentPos THEN [players |-> ps, applied |-> FALSE]
      ELSE [players |->
              [i \in 1..Len(ps) |->
                 IF ps[i].pid = challengerPid
                 THEN [ps[i] EXCEPT !.position = opponentPos]
                 ELSE IF ps[i].position > opponentPos
                         /\ ps[i].position < ps[c].position
                 THEN [ps[i] EXCEPT !.position = @ + 1]
                 ELSE ps[i]],
            applied |-> TRUE]

applyLadderMove(ps, challengerPid, opponentPos) ==
  LET c == FindByPid(ps, challengerPid)
  IN  IF c = 0 THEN [players |-> ps, applied |-> FALSE]
      ELSE LET challengerStartPos == ps[c].position
           IN  IF challengerStartPos <= opponentPos
               THEN [players |-> ps, applied |-> FALSE]
               ELSE [players |->
                       [i \in 1..Len(ps) |->
                          IF ps[i].pid = challengerPid
                          THEN [ps[i] EXCEPT !.position = opponentPos]
                          ELSE IF ps[i].position >= opponentPos
                                  /\ ps[i].position < challengerStartPos
                          THEN [ps[i] EXCEPT !.position = @ + 1]
                          ELSE ps[i]],
                     applied |-> TRUE]

reverseLadderMoveClosedInterval(ps, challengerPid, challengerStartPos, opponentStartPos) ==
  IF FindByPid(ps, challengerPid) = 0 THEN ps
  ELSE [i \in 1..Len(ps) |->
          IF ps[i].pid = challengerPid
          THEN [ps[i] EXCEPT !.position = challengerStartPos]
          ELSE IF ps[i].position >= opponentStartPos
                  /\ ps[i].position <= challengerStartPos
          THEN [ps[i] EXCEPT !.position = @ - 1]
          ELSE ps[i]]

reverseLadderMoveOpenInterval(ps, challengerPid, challengerStartPos, opponentStartPos) ==
  IF FindByPid(ps, challengerPid) = 0 THEN ps
  ELSE [i \in 1..Len(ps) |->
          IF ps[i].pid = challengerPid
          THEN [ps[i] EXCEPT !.position = challengerStartPos]
          ELSE IF ps[i].position > opponentStartPos
                  /\ ps[i].position < challengerStartPos
          THEN [ps[i] EXCEPT !.position = @ - 1]
          ELSE ps[i]]

reverseLadderMove(ps, challengerPid, challengerStartPos, opponentStartPos) ==
  IF FindByPid(ps, challengerPid) = 0 THEN ps
  ELSE [i \in 1..Len(ps) |->
          IF ps[i].pid = challengerPid
          THEN [ps[i] EXCEPT !.position = challengerStartPos]
          ELSE IF ps[i].position > opponentStartPos
                  /\ ps[i].position <= challengerStartPos
          THEN [ps[i] EXCEPT !.position = @ - 1]
          ELSE ps[i]]

(***************************************************************************)
(* Statistic deltas.                                                       *)
(***************************************************************************)
DidWin(winnerId, isP1) == (winnerId = "p1" /\ isP1) \/ (winnerId = "p2" /\ ~isP1)

SetsWonOf(t, isP1) == IF isP1 THEN t.p1Sets ELSE t.p2Sets
SetsLostOf(t, isP1) == IF isP1 THEN t.p2Sets ELSE t.p1Sets
GamesWonOf(t, isP1) == IF isP1 THEN t.p1Games ELSE t.p2Games
GamesLostOf(t, isP1) == IF isP1 THEN t.p2Games ELSE t.p1Games

\* PlusStats crediting a win to both participants
PlusStatsWinForBoth(p, isP1, winnerId, t, monthKey) ==
  LET q == [p EXCEPT !.matchesPlayed = @ + 1,
                     !.matchesWon = @ + 1,
                     !.setsWon = @ + SetsWonOf(t, isP1),
                     !.setsLost = @ + SetsLostOf(t, isP1),
                     !.gamesWon = @ + GamesWonOf(t, isP1),
                     !.gamesLost = @ + GamesLostOf(t, isP1)]
  IN  IF monthKey # NoKey THEN [q EXCEPT ![monthKey] = p[monthKey] + 1] ELSE q

\* the participant's record after a match is counted in (no clamp)
PlusStats(p, isP1, winnerId, t, monthKey) ==
  LET q == [p EXCEPT !.matchesPlayed = @ + 1,
                     !.matchesWon = @ + (IF DidWin(winnerId, isP1) THEN 1 ELSE 0),
                     !.setsWon = @ + SetsWonOf(t, isP1),
                     !.setsLost = @ + SetsLostOf(t, isP1),
                     !.gamesWon = @ + GamesWonOf(t, isP1),
                     !.gamesLost = @ + GamesLostOf(t, isP1)]
  IN  IF monthKey # NoKey THEN [q EXCEPT ![monthKey] = p[monthKey] + 1] ELSE q

ClampedStatsNoClamp(p, isP1, winnerId, t, monthKey, dir) ==
  LET q == [p EXCEPT !.matchesPlayed = @ + 1 * dir,
                     !.matchesWon = @ + (IF DidWin(winnerId, isP1) THEN 1 ELSE 0) * dir,
                     !.setsWon = @ + SetsWonOf(t, isP1) * dir,
                     !.setsLost = @ + SetsLostOf(t, isP1) * dir,
                     !.gamesWon = @ + GamesWonOf(t, isP1) * dir,
                     !.gamesLost = @ + GamesLostOf(t, isP1) * dir]
  IN  IF monthKey # NoKey THEN [q EXCEPT ![monthKey] = p[monthKey] + 1 * dir] ELSE q

\* the participant's record after a match is counted in (dir = 1) or out
\* (dir = -1), every counter clamped at 0
ClampedStats(p, isP1, winnerId, t, monthKey, dir) ==
  LET q == [p EXCEPT !.matchesPlayed = clampMin0(@ + 1 * dir),
                     !.matchesWon = clampMin0(@ + (IF DidWin(winnerId, isP1) THEN 1 ELSE 0) * dir),
                     !.setsWon = clampMin0(@ + SetsWonOf(t, isP1) * dir),
                     !.setsLost = clampMin0(@ + SetsLostOf(t, isP1) * dir),
                     !.gamesWon = clampMin0(@ + GamesWonOf(t, isP1) * dir),
                     !.gamesLost = clampMin0(@ + GamesLostOf(t, isP1) * dir)]
  IN  IF monthKey # NoKey THEN [q EXCEPT ![monthKey] = clampMin0(p[monthKey] + 1 * dir)] ELSE q

\* players with the positions of `moved` (matched by pid) and their own counters
WithPositionsOf(ps, moved) ==
  [i \in 1..Len(ps) |->
     LET k == FindByPid(moved, ps[i].pid)
     IN  IF k = 0 THEN ps[i] ELSE [ps[i] EXCEPT !.position = moved[k].position]]

(***************************************************************************)
(* The match transactions, as functions of the snapshot and the form.      *)
(***************************************************************************)
MsgLocked == "Locked: Admin unlock required."
MsgInvalidPosition == "Invalid position selected."
MsgOpponentNoName == "The player at this position has no name yet."
MsgPickChallenger == "Pick a Challenger."
MsgChallengerMissing == "Challenger is missing / has no name."
MsgSelf == "Challenger can't play themselves."
MsgNoMatchSelected == "No match selected."
MsgMatchNotFound == "Match not found."
MsgStoredInvalid == "Stored score invalid; can't edit safely."
MsgOriginalInvalid == "Original match score is invalid, cannot safely edit this match."
MsgPlayersMissing == "Players missing."

\* FindMatch falling back on the newest record
FindMatchOrNewest(ms, id) ==
  IF \E i \in 1..Len(ms) : ms[i].id = id
  THEN CHOOSE i \in 1..Len(ms) : ms[i].id = id /\ \A j \in 1..(i - 1) : ms[j].id # id
  ELSE IF ms = <<>> THEN 0 ELSE 1

\* matches.find((m) => m.id === id): its index, 0 if none
FindMatch(ms, id) ==
  IF \E i \in 1..Len(ms) : ms[i].id = id
  THEN CHOOSE i \in 1..Len(ms) : ms[i].id = id /\ \A j \in 1..(i - 1) : ms[j].id # id
  ELSE 0

\* matches.filter((m) => m.id !== id)
RECURSIVE WithoutMatch(_, _)
WithoutMatch(ms, id) ==
  IF ms = <<>> THEN <<>>
  ELSE IF Head(ms).id = id THEN WithoutMatch(Tail(ms), id)
  ELSE <<Head(ms)>> \o WithoutMatch(Tail(ms), id)

\* the two participants counted in, everyone else as is
CountIn(ps, challengerPid, opponentPid, winnerId, t, monthKey) ==
  [i \in 1..Len(ps) |->
     IF ps[i].pid # challengerPid /\ ps[i].pid # opponentPid THEN ps[i]
     ELSE PlusStats(ps[i], ps[i].pid = challengerPid, winnerId, t, monthKey)]

\* the two participants counted in or out with the clamp, everyone else as is
CountClamped(ps, challengerPid, opponentPid, winnerId, t, monthKey, dir) ==
  [i \in 1..Len(ps) |->
     IF ps[i].pid # challengerPid /\ ps[i].pid # opponentPid THEN ps[i]
     ELSE ClampedStats(ps[i], ps[i].pid = challengerPid, winnerId, t, monthKey, dir)]

Outcome(msg, ps, ms) == [error |-> msg, players |-> ps, matches |-> ms]

MoveIfRankedBelow(ps, winnerId, p1, p2) ==
  IF p1.position > p2.position
  THEN applyLadderMove(ps, p1.pid, p2.position)
  ELSE [players |-> ps, applied |-> FALSE]

\* shouldMove ? applyLadderMove(ps, p1.pid, opponentStartPos) : {players: ps, applied: false}
MoveIfUpset(ps, winnerId, p1, p2) ==
  IF winnerId = "p1" /\ p1.position > p2.position
  THEN applyLadderMove(ps, p1.pid, p2.position)
  ELSE [players |-> ps, applied |-> FALSE]

\* NewMatchRecord with the challenger's position read after the move
NewMatchRecordAfterMove(in, id, p1, p2, applied) ==
  [id |-> id, date |-> in.matchDate, positionPlayedFor |-> p2.position,
   challengerPid |-> p1.pid, opponentPid |-> p2.pid,
   winnerId |-> in.winner, score |-> Trim(in.score), surface |-> in.surface,
   challengerStartPos |-> IF applied THEN p2.position ELSE p1.position,
   opponentStartPos |-> p2.position,
   ladderMoveApplied |-> applied]

\* matchRecord of actuallyAddMatch
NewMatchRecord(in, id, p1, p2, applied) ==
  [id |-> id, date |-> in.matchDate, positionPlayedFor |-> p2.position,
   challengerPid |-> p1.pid, opponentPid |-> p2.pid,
   winnerId |-> in.winner, score |-> Trim(in.score), surface |-> in.surface,
   challengerStartPos |-> p1.position, opponentStartPos |-> p2.position,
   ladderMoveApplied |-> applied]

\* nextState of actuallyAddMatch: the counters, then the positions of the move
AddCommit(ps, ms, in, id, p1, p2, counted, moved) ==
  Outcome("",
          IF moved.applied THEN WithPositionsOf(counted, moved.players) ELSE counted,
          <<NewMatchRecord(in, id, p1, p2, moved.applied)>> \o ms)

AddValidated(ps, ms, in, id, p1, p2, sets) ==
  AddCommit(ps, ms, in, id, p1, p2,
            CountIn(ps, p1.pid, p2.pid, in.winner, computeFromSets(sets),
                    monthKeyFromDateISO(in.matchDate)),
            MoveIfUpset(ps, in.winner, p1, p2))

AddScoredUnvalidated(ps, ms, in, id, p1, p2, sets, validity) ==
  AddValidated(ps, ms, in, id, p1, p2, sets)

AddScored(ps, ms, in, id, p1, p2, sets, validity) ==
  IF ~validity.ok THEN Outcome(validity.message, ps, ms)
  ELSE AddValidated(ps, ms, in, id, p1, p2, sets)

AddParsed(ps, ms, in, id, p1, p2, parsed) ==
  IF ~parsed.valid THEN Outcome(parsed.message, ps, ms)
  ELSE AddScored(ps, ms, in, id, p1, p2, parsed.sets, validateSets(parsed.sets))

\* the guards of actuallyAddMatch, with i2 the player at the position played
\* for and i1 the challenger (indices into ps, 0 when find() gives none)
AddResolved(ps, ms, lk, in, id, i1, i2) ==
  IF lk THEN Outcome(MsgLocked, ps, ms)
  ELSE IF i2 = 0 THEN Outcome(MsgInvalidPosition, ps, ms)
  ELSE IF IsUnnamed(ps[i2]) THEN Outcome(MsgOpponentNoName, ps, ms)
  ELSE IF in.challengerPid = 0 THEN Outcome(MsgPickChallenger, ps, ms)
  ELSE IF i1 = 0 THEN Outcome(MsgChallengerMissing, ps, ms)
  ELSE IF IsUnnamed(ps[i1]) THEN Outcome(MsgChallengerMissing, ps, ms)
  ELSE IF ps[i1].pid = ps[i2].pid THEN Outcome(MsgSelf, ps, ms)
  ELSE AddParsed(ps, ms, in, id, ps[i1], ps[i2], parseScore(in.score))

\* actuallyAddMatch: `in` is the match form (matchPos, challengerPid with 0 for
\* none picked, winner, surface, score, matchDate), `id` the value of uid()
actuallyAddMatch(ps, ms, pc, lk, in, id) ==
  AddResolved(ps, ms, lk, in, id, FindByPid(ps, in.challengerPid),
              FindByPosition(ps, clamp(in.matchPos, 1, pc)))

\* UncountValidated leaving the counters as they are
UncountValidatedKeepingCounters(ps, match, sets, validity) == ps

\* the statistic reversal of deleteMatchConfirmed, skipped when the stored
\* score does not validate
UncountValidated(ps, match, sets, validity) ==
  IF ~validity.ok THEN ps
  ELSE CountClamped(ps, match.challengerPid, match.opponentPid, match.winnerId,
                    computeFromSets(sets), monthKeyFromDateISO(match.date), -1)

UncountParsed(ps, match, parsed) ==
  IF ~parsed.valid THEN ps
  ELSE UncountValidated(ps, match, parsed.sets, validateSets(parsed.sets))

\* the reversal run whatever the flag says
ReverseAlways(ps, match) ==
  reverseLadderMove(ps, match.challengerPid, match.challengerStartPos,
                    match.opponentStartPos)

\* if (match.ladderMoveApplied) reverseLadderMove(..., the recorded start positions)
ReverseIfApplied(ps, match) ==
  IF match.ladderMoveApplied
  THEN reverseLadderMove(ps, match.challengerPid, match.challengerStartPos,
                         match.opponentStartPos)
  ELSE ps

\* parseScore and validateSets both accept the score
ScoreIsValid(score) ==
  LET parsed == parseScore(score)
  IN  parsed.valid /\ validateSets(parsed.sets).ok

\* DeleteFound with the reversal of the move inside the branch of a valid score
DeleteFoundReversalWithCounters(ps, ms, id, k) ==
  IF id = 0 THEN Outcome("", ps, ms)
  ELSE IF k = 0 THEN Outcome("", ps, ms)
  ELSE Outcome("",
               IF ScoreIsValid(ms[k].score)
               THEN ReverseIfApplied(UncountParsed(ps, ms[k], parseScore(ms[k].score)), ms[k])
               ELSE ps,
               WithoutMatch(ms, id))

DeleteFound(ps, ms, id, k) ==
  IF id = 0 THEN Outcome("", ps, ms)
  ELSE IF k = 0 THEN Outcome("", ps, ms)
  ELSE Outcome("",
               ReverseIfApplied(UncountParsed(ps, ms[k], parseScore(ms[k].score)), ms[k]),
               WithoutMatch(ms, id))

\* deleteMatchConfirmed on deleteTargetId = id (0: none); the handler reports
\* nothing, so error is "" throughout
deleteMatchConfirmed(ps, ms, id) == DeleteFound(ps, ms, id, FindMatch(ms, id))

\* ReplaceMatch putting the edited record first, as an Add would
ReplaceMatchToFront(ms, edited) == <<edited>> \o WithoutMatch(ms, edited.id)

\* matches.map((m) => (m.id === edited.id ? edited : m))
ReplaceMatch(ms, edited) == [i \in 1..Len(ms) |-> IF ms[i].id = edited.id THEN edited ELSE ms[i]]

\* an edit's outcome: `thrown` when the handler ended by an exception, which
\* submitPin catches and shows as pinError
EditOutcome(msg, thrown, ps, ms) ==
  [error |-> msg, thrown |-> thrown, players |-> ps, matches |-> ms]

DeltaValidated(ps, matchObj, dir, sets, valid) ==
  IF ~valid.ok THEN [ok |-> FALSE, players |-> ps]
  ELSE [ok |-> TRUE,
        players |-> CountClamped(ps, matchObj.challengerPid, matchObj.opponentPid,
                                 matchObj.winnerId, computeFromSets(sets),
                                 monthKeyFromDateISO(matchObj.date), dir)]

\* DeltaParsed passing over a score that does not parse, as Delete does
DeltaParsedSkipping(ps, matchObj, dir, parsed) ==
  IF ~parsed.valid THEN [ok |-> TRUE, players |-> ps]
  ELSE DeltaValidated(ps, matchObj, dir, parsed.sets, validateSets(parsed.sets))

DeltaParsed(ps, matchObj, dir, parsed) ==
  IF ~parsed.valid THEN [ok |-> FALSE, players |-> ps]
  ELSE DeltaValidated(ps, matchObj, dir, parsed.sets, validateSets(parsed.sets))

\* applyMatchDelta(matchObj, dir) of actuallySaveEdit on the player array ps:
\* ok = FALSE when it throws
applyMatchDelta(ps, matchObj, dir) == DeltaParsed(ps, matchObj, dir, parseScore(matchObj.score))

\* EditedFields leaving the winner as recorded
EditedFieldsKeepingWinner(original, in) ==
  [original EXCEPT !.date = in.editDate, !.surface = in.editSurface,
                   !.score = Trim(in.editScore)]

\* { ...original, date, surface, winnerId, score } of the edit modal
EditedFields(original, in) ==
  [original EXCEPT !.date = in.editDate, !.surface = in.editSurface,
                   !.winnerId = in.editWinner, !.score = Trim(in.editScore)]

\* the start positions and the flag actuallySaveEdit writes on the edited record
FreshRecord(edited, p1, p2, applied) ==
  [edited EXCEPT !.challengerStartPos = p1.position,
                 !.opponentStartPos = p2.position,
                 !.positionPlayedFor = p2.position,
                 !.ladderMoveApplied = applied]

SaveEditDone(ps, ms, edited, plus) ==
  IF ~plus.ok THEN EditOutcome(MsgStoredInvalid, TRUE, ps, ms)
  ELSE EditOutcome("", FALSE, plus.players, ReplaceMatch(ms, edited))

SaveEditCounted(ps, ms, edited, placed) ==
  SaveEditDone(ps, ms, edited, applyMatchDelta(placed, edited, 1))

SaveEditMoved(ps, ms, qs, edited, p1, p2, moved) ==
  SaveEditCounted(ps, ms, FreshRecord(edited, p1, p2, moved.applied),
                  WithPositionsOf(qs, moved.players))

SaveEditPlayers(ps, ms, qs, edited, i1, i2) ==
  IF i1 = 0 THEN EditOutcome(MsgPlayersMissing, TRUE, ps, ms)
  ELSE IF i2 = 0 THEN EditOutcome(MsgPlayersMissing, TRUE, ps, ms)
  ELSE SaveEditMoved(ps, ms, qs, edited, qs[i1], qs[i2],
                     MoveIfUpset(qs, edited.winnerId, qs[i1], qs[i2]))

SaveEditReversed(ps, ms, in, original, minus) ==
  IF ~minus.ok THEN EditOutcome(MsgStoredInvalid, TRUE, ps, ms)
  ELSE SaveEditPlayers(ps, ms, minus.players, EditedFields(original, in),
                       FindByPid(minus.players, original.challengerPid),
                       FindByPid(minus.players, original.opponentPid))

SaveEditUnvalidated(ps, ms, in, original, vNew) ==
  SaveEditReversed(ps, ms, in, original,
                   applyMatchDelta(ReverseIfApplied(ps, original), original, -1))

SaveEditValidated(ps, ms, in, original, vNew) ==
  IF ~vNew.ok THEN EditOutcome(vNew.message, FALSE, ps, ms)
  ELSE SaveEditReversed(ps, ms, in, original,
                        applyMatchDelta(ReverseIfApplied(ps, original), original, -1))

SaveEditFound(ps, ms, in, k, parsedNew) ==
  IF in.editId = 0 THEN EditOutcome(MsgNoMatchSelected, FALSE, ps, ms)
  ELSE IF k = 0 THEN EditOutcome(MsgMatchNotFound, FALSE, ps, ms)
  ELSE IF ~parsedNew.valid THEN EditOutcome(parsedNew.message, FALSE, ps, ms)
  ELSE SaveEditValidated(ps, ms, in, ms[k], validateSets(parsedNew.sets))

\* actuallySaveEdit (cloud variant): `in` is the edit modal (editId with 0 for
\* none, editDate, editSurface, editWinner, editScore)
actuallySaveEdit(ps, ms, in) ==
  SaveEditFound(ps, ms, in, FindMatch(ms, in.editId), parseScore(in.editScore))

\* updatedMatches of applyEditWithPin: the start positions stay as recorded
LocalEditedRecord(match, in, applied) ==
  [match EXCEPT !.date = in.editDate, !.surface = in.editSurface,
                !.score = Trim(in.editScore), !.winnerId = in.editWinner,
                !.ladderMoveApplied = applied]

LocalEditMoved(ms, match, in, moved) ==
  EditOutcome("", FALSE, moved.players,
              ReplaceMatch(ms, LocalEditedRecord(match, in, moved.applied)))

LocalEditPlayers(ms, match, in, nextPlayers, i1, i2) ==
  LocalEditMoved(ms, match, in,
                 IF i1 # 0 /\ i2 # 0
                 THEN MoveIfUpset(nextPlayers, in.editWinner, nextPlayers[i1], nextPlayers[i2])
                 ELSE [players |-> nextPlayers, applied |-> FALSE])

LocalEditCounted(ms, match, in, nextPlayers) ==
  LocalEditPlayers(ms, match, in, nextPlayers,
                   FindByPid(nextPlayers, match.challengerPid),
                   FindByPid(nextPlayers, match.opponentPid))

\* steps 1 to 3 of applyEditWithPin: old statistics out, old move reversed,
\* new statistics in
LocalEditTotals(ps, ms, match, in, oldSets, newSets) ==
  LocalEditCounted(ms, match, in,
    CountIn(ReverseIfApplied(
              CountClamped(ps, match.challengerPid, match.opponentPid, match.winnerId,
                           computeFromSets(oldSets), monthKeyFromDateISO(match.date), -1),
              match),
            match.challengerPid, match.opponentPid, in.editWinner,
            computeFromSets(newSets), monthKeyFromDateISO(in.editDate)))

LocalEditOldValidated(ps, ms, match, in, oldSets, newSets, validOld) ==
  IF ~validOld.ok THEN EditOutcome(MsgOriginalInvalid, FALSE, ps, ms)
  ELSE LocalEditTotals(ps, ms, match, in, oldSets, newSets)

LocalEditOldParsed(ps, ms, match, in, newSets, parsedOld) ==
  IF ~parsedOld.valid THEN EditOutcome(MsgOriginalInvalid, FALSE, ps, ms)
  ELSE LocalEditOldValidated(ps, ms, match, in, parsedOld.sets, newSets,
                             validateSets(parsedOld.sets))

LocalEditNewValidated(ps, ms, match, in, newSets, validNew) ==
  IF ~validNew.ok THEN EditOutcome(validNew.message, FALSE, ps, ms)
  ELSE LocalEditOldParsed(ps, ms, match, in, newSets, parseScore(match.score))

LocalEditFound(ps, ms, in, k, parsedNew) ==
  IF in.editId = 0 THEN EditOutcome("", FALSE, ps, ms)
  ELSE IF k = 0 THEN EditOutcome("", FALSE, ps, ms)
  ELSE IF ~parsedNew.valid THEN EditOutcome(parsedNew.message, FALSE, ps, ms)
  ELSE LocalEditNewValidated(ps, ms, ms[k], in, parsedNew.sets,
                             validateSets(parsedNew.sets))

\* applyEditWithPin (local variant): error "" with nothing changed is its silent
\* return on a missing target
applyEditWithPin(ps, ms, in) ==
  LocalEditFound(ps, ms, in, FindMatch(ms, in.editId), parseScore(in.editScore))

(***************************************************************************)
(* Persistence.  The cloud store is three tables: players (one row per     *)
(* pid), matches (one row per id, kept newest first, the order the reader  *)
(* asks for) and settings (the playerCount value, NoSetting while the row  *)
(* is missing).  The handler only ever upserts rows.                       *)
(***************************************************************************)
NoSetting == 0

EmptyStore == [players |-> {}, matches |-> <<>>, playerCount |-> NoSetting]

\* pRows of the handler: one row of the players table
PlayerRow(p) ==
  [pid |-> p.pid, position |-> p.position, name |-> p.name,
   matches_played |-> p.matchesPlayed, matches_won |-> p.matchesWon,
   sets_won |-> p.setsWon, sets_lost |-> p.setsLost,
   games_won |-> p.gamesWon, games_lost |-> p.gamesLost,
   apr |-> p.apr, may |-> p.may, jun |-> p.jun, jul |-> p.jul, aug |-> p.aug]

\* mRows of the handler: Number(m.positionPlayedFor || 1) turns 0 into 1
MatchRow(m) ==
  [id |-> m.id, date |-> m.date,
   position_played_for |-> IF m.positionPlayedFor = 0 THEN 1 ELSE m.positionPlayedFor,
   challenger_pid |-> m.challengerPid, opponent_pid |-> m.opponentPid,
   winner_id |-> m.winnerId, score |-> m.score, surface |-> m.surface,
   challenger_start_pos |-> m.challengerStartPos,
   opponent_start_pos |-> m.opponentStartPos,
   ladder_move_applied |-> m.ladderMoveApplied]

\* supabase.from("players").upsert(pRows, { onConflict: "pid" })
UpsertPlayers(table, ps) ==
  LET pRows == {PlayerRow(ps[i]) : i \in 1..Len(ps)}
  IN  {r \in table : \A n \in pRows : n.pid # r.pid} \cup pRows

\* supabase.from("matches").upsert(mRows, { onConflict: "id" }): a row whose id
\* is stored is overwritten, any other row is inserted; no row is removed
UpsertMatches(table, ms) ==
  LET mRows  == [i \in 1..Len(ms) |-> MatchRow(ms[i])]
      Stored(id) == \E k \in 1..Len(table) : table[k].id = id
      Sent(id) == \E i \in 1..Len(mRows) : mRows[i].id = id
      RowOf(id) == mRows[CHOOSE i \in 1..Len(mRows) : mRows[i].id = id]
  IN  SelectSeq(mRows, LAMBDA r : ~Stored(r.id))
        \o [k \in 1..Len(table) |->
              IF Sent(table[k].id) THEN RowOf(table[k].id) ELSE table[k]]

\* the three awaited writes of the handler's saveState, in its order
SavePlayers(store, payload) ==
  [store EXCEPT !.players = UpsertPlayers(store.players, payload.players)]

SaveMatches(store, payload) ==
  [store EXCEPT !.matches = UpsertMatches(store.matches, payload.matches)]

SaveSettings(store, payload) == [store EXCEPT !.playerCount = payload.playerCount]

\* a saveState request the handler answers { ok: true }
saveState(store, payload) ==
  SaveSettings(SaveMatches(SavePlayers(store, payload), payload), payload)

\* process.env.ADMIN_PIN when unset, and a pin the request body lacks
Undefined == "<undefined>"

\* what the handler answers: the HTTP status, and the store as it leaves it
Response(status, store) == [status |-> status, store |-> store]

\* the action router of the handler, reached by an authorized request
HandlerRoute(store, req) ==
  IF req.action # "saveState" THEN Response(400, store)
  ELSE IF ~req.arrays THEN Response(400, store)
  ELSE Response(200, saveState(store, req.payload))

\* handler with the pin only compared to ADMIN_PIN, the `!pin` test left out
handlerComparingOnly(store, adminPin, req) ==
  IF req.method # "POST" THEN Response(405, store)
  ELSE IF req.pin # adminPin THEN Response(401, store)
  ELSE HandlerRoute(store, req)

\* handler(req, res) with ADMIN_PIN = adminPin.  req is the method and the
\* body's pin, action and payload; arrays says whether payload.players and
\* payload.matches are arrays.  The writes of an accepted request all succeed.
handler(store, adminPin, req) ==
  IF req.method # "POST" THEN Response(405, store)
  ELSE IF req.pin \in {Undefined, ""} \/ req.pin # adminPin THEN Response(401, store)
  ELSE HandlerRoute(store, req)

\* the payload of saveCloudState(pin, state)
Payload(pc, ps, ms) == [playerCount |-> pc, players |-> ps, matches |-> ms]

\* one entry of fetchCloudState's players array, from the row byPos has at pos
LoadedPlayer(row, pos) ==
  [pid |-> row.pid, position |-> pos, name |-> row.name,
   matchesPlayed |-> row.matches_played, matchesWon |-> row.matches_won,
   setsWon |-> row.sets_won, setsLost |-> row.sets_lost,
   gamesWon |-> row.games_won, gamesLost |-> row.games_lost,
   apr |-> row.apr, may |-> row.may, jun |-> row.jun, jul |-> row.jul, aug |-> row.aug]

\* byPos keeps one row per position: the last of the rows the query returns
\* for it, and the query orders rows of one position in no particular way.
\* A pick names, for each position, the pid of the row kept (0: no row).
LoadedRosters(table) ==
  LET PidsAt(pos) == {r.pid : r \in {q \in table : q.position = pos}}
      RowOfPid(pid) == CHOOSE r \in table : r.pid = pid
      Picks == {f \in [1..CAPACITY -> {0} \cup {r.pid : r \in table}] :
                  \A pos \in 1..CAPACITY :
                    IF PidsAt(pos) = {} THEN f[pos] = 0 ELSE f[pos] \in PidsAt(pos)}
  IN  {[pos \in 1..CAPACITY |->
          IF f[pos] = 0 THEN createEmptyPlayer(pos)
          ELSE LoadedPlayer(RowOfPid(f[pos]), pos)] :
       f \in Picks}

\* one entry of fetchCloudState's matches array
LoadedMatch(row) ==
  [id |-> row.id, date |-> row.date, positionPlayedFor |-> row.position_played_for,
   challengerPid |-> row.challenger_pid, opponentPid |-> row.opponent_pid,
   winnerId |-> IF row.winner_id \in {"p1", "p2"} THEN row.winner_id ELSE "p2",
   score |-> row.score, surface |-> row.surface,
   challengerStartPos |-> row.challenger_start_pos,
   opponentStartPos |-> row.opponent_start_pos,
   ladderMoveApplied |-> row.ladder_move_applied]

\* the snapshots fetchCloudState can return of the store
fetchCloudState(store) ==
  {[playerCount |-> clamp(IF store.playerCount = NoSetting THEN DEFAULT_PLAYER_COUNT
                          ELSE store.playerCount, 2, CAPACITY),
    players |-> ps,
    matches |-> [k \in 1..Len(store.matches) |-> LoadedMatch(store.matches[k])]] :
   ps \in LoadedRosters(store.players)}

\* normalizeState(raw) of the local variant, raw a snapshot read back from
\* localStorage: byPos keeps the last player of the array at each position
normalizeState(raw) ==
  LET At(pos) == {i \in 1..Len(raw.players) : raw.players[i].position = pos}
      Last(pos) == CHOOSE i \in At(pos) : \A j \in At(pos) : j <= i
  IN  [playerCount |-> clamp(raw.playerCount, 2, CAPACITY),
       players |-> [pos \in 1..CAPACITY |->
                      IF At(pos) = {} THEN createEmptyPlayer(pos)
                      ELSE [raw.players[Last(pos)] EXCEPT !.position = pos]],
       matches |-> [k \in 1..Len(raw.matches) |->
                      [raw.matches[k] EXCEPT
                         !.winnerId = IF @ \in {"p1", "p2"} THEN @ ELSE "p2"]]]

(***************************************************************************)
(* What the user can enter.                                                *)
(***************************************************************************)
Pids == 1..CAPACITY
Names == {"", "Ann"}
Winners == {"p1", "p2"}
Surfaces == {"Clay"}
Dates == {IsoDate(4, 1), IsoDate(9, 15)}

\* what is typed for one match: its date and its score
Entry(date, score) == [date |-> date, score |-> score]
ValidEntries == {Entry(IsoDate(4, 1), Score_64_63), Entry(IsoDate(9, 15), Score_46_67)}
BadEntries == {Entry(IsoDate(4, 1), s) : s \in BadScores}

\* the match form: matchPos is kept within 1..playerCount by the form's effect
AddFormsWith(challengers, entries) ==
  {[matchPos |-> pos, challengerPid |-> c, winner |-> w, surface |-> sf,
    score |-> e.score, matchDate |-> e.date] :
      pos \in 1..playerCount, c \in challengers, w \in Winners, sf \in Surfaces,
      e \in entries}

EditFormsWith(ids, entries) ==
  {[editId |-> id, editDate |-> e.date, editSurface |-> sf, editWinner |-> w,
    editScore |-> e.score] :
      id \in ids, w \in Winners, sf \in Surfaces, e \in entries}

(***************************************************************************)
(* Construction.                                                           *)
(***************************************************************************)
\* defaultState().players
defaultPlayers == [i \in 1..CAPACITY |-> createEmptyPlayer(i)]

HarnessOff == [stage |-> "off"]

InitIn(zones) ==
  /\ variant \in {"cloud", "local"}
  /\ tzWest \in zones
  /\ players = defaultPlayers
  /\ matches = <<>>
  /\ playerCount = DEFAULT_PLAYER_COUNT
  /\ locked = TRUE
  /\ error = ""
  /\ editError = ""
  /\ nextId = 0
  /\ harness = HarnessOff

\* a browser at or east of UTC
Init == InitIn({FALSE})

(***************************************************************************)
(* Operations.                                                             *)
(***************************************************************************)
\* submitPin with pinPurpose = "unlock", the PIN accepted
Unlock ==
  /\ locked
  /\ locked' = FALSE
  /\ UNCHANGED <<variant, tzWest, players, matches, playerCount, error, editError,
                 nextId, harness>>

\* updatePlayer(pid, "name", value)
updatePlayerName(pid, value) ==
  /\ ~locked
  /\ players' = [i \in 1..Len(players) |->
                   IF players[i].pid # pid THEN players[i]
                   ELSE [players[i] EXCEPT !.name = value]]
  /\ UNCHANGED <<variant, tzWest, matches, playerCount, locked, error, editError,
                 nextId, harness>>

AddOutcome(in) == actuallyAddMatch(players, matches, playerCount, locked, in, nextId + 1)

\* actuallyAddMatch with the form `in`
AddStep(in) ==
  /\ LET out == AddOutcome(in)
     IN  /\ players' = out.players
         /\ matches' = out.matches
         /\ error' = out.error
         /\ nextId' = IF out.error = "" THEN nextId + 1 ELSE nextId
  /\ UNCHANGED <<variant, tzWest, playerCount, locked, editError>>

Add(in) == AddStep(in) /\ UNCHANGED harness

\* deleteMatchConfirmed with deleteTargetId = id
DeleteStep(id) ==
  /\ LET out == deleteMatchConfirmed(players, matches, id)
     IN  /\ players' = out.players
         /\ matches' = out.matches
  /\ UNCHANGED <<variant, tzWest, playerCount, locked, error, editError, nextId>>

Delete(id) == DeleteStep(id) /\ UNCHANGED harness

EditOutcomeOf(in) ==
  IF variant = "cloud" THEN actuallySaveEdit(players, matches, in)
  ELSE applyEditWithPin(players, matches, in)

\* actuallySaveEdit (cloud) or applyEditWithPin (local) with the edit modal `in`
EditStep(in) ==
  /\ LET out == EditOutcomeOf(in)
     IN  /\ players' = out.players
         /\ matches' = out.matches
         /\ editError' =
              IF variant = "local" /\ (in.editId = 0 \/ FindMatch(matches, in.editId) = 0)
              THEN editError
              ELSE IF out.thrown THEN ""
              ELSE out.error
  /\ UNCHANGED <<variant, tzWest, playerCount, locked, error, nextId>>

Edit(in) == EditStep(in) /\ UNCHANGED harness

MatchIds == {matches[k].id : k \in 1..Len(matches)}

\* visiblePlayers: the rows of the roster table
VisiblePids ==
  {players[i].pid : i \in {j \in 1..Len(players) :
                             players[j].position >= 1 /\ players[j].position <= playerCount}}

\* selectablePlayers: the options of the Challenger select
SelectablePids ==
  {players[i].pid : i \in {j \in 1..Len(players) :
                             /\ players[j].position >= 1
                             /\ players[j].position <= playerCount
                             /\ ~IsUnnamed(players[j])}}

\* setLocked(true) of the Lock button
Lock ==
  /\ ~locked
  /\ locked' = TRUE
  /\ UNCHANGED <<variant, tzWest, players, matches, playerCount, error, editError,
                 nextId, harness>>

\* updatePlayer(pid, field, value) from a StatCell of the roster table
updatePlayerStat(pid, field, value) ==
  /\ ~locked
  /\ players' = [i \in 1..Len(players) |->
                   IF players[i].pid # pid THEN players[i]
                   ELSE [players[i] EXCEPT ![field] = asNumber(value, Num(0)).val]]
  /\ UNCHANGED <<variant, tzWest, matches, playerCount, locked, error, editError,
                 nextId, harness>>

Rename == \E pid \in VisiblePids : updatePlayerName(pid, "Ann")

\* an Add the handler accepts, while fewer than cap matches were ever added
AddAccepted(cap) ==
  \E in \in AddFormsWith(SelectablePids, ValidEntries) :
    nextId < cap /\ Add(in) /\ error' = ""

DeleteAny == \E id \in MatchIds : Delete(id)

EditAccepted == \E in \in EditFormsWith(MatchIds, ValidEntries) : Edit(in) /\ editError' = ""

\* The engine under the transactions it accepts: unlock, name the players, then
\* any Add, Delete and Edit in any order.
Next ==
  \/ Unlock
  \/ Rename
  \/ AddAccepted(MaxAdds)
  \/ DeleteAny
  \/ EditAccepted

Spec == Init /\ [][Next]_vars

(***************************************************************************)
(* The ladder functions alone: a roster of LadderSize players in any       *)
(* permutation, one challenger ranked below a target position; the move is *)
(* applied, then reversed with the same two boundary positions.            *)
(***************************************************************************)
Perms(n) == {f \in [1..n -> 1..n] : \A i, j \in 1..n : f[i] = f[j] => i = j}

RosterOf(perm) == [i \in 1..Len(perm) |-> [createEmptyPlayer(i) EXCEPT !.position = perm[i]]]

PositionsOf(ps) == [i \in 1..Len(ps) |-> ps[i].position]

InitLadder ==
  /\ variant = "cloud"
  /\ tzWest = FALSE
  /\ \E perm \in Perms(LadderSize) : players = RosterOf(perm)
  /\ matches = <<>>
  /\ playerCount = DEFAULT_PLAYER_COUNT
  /\ locked = TRUE
  /\ error = ""
  /\ editError = ""
  /\ nextId = 0
  /\ \E c \in 1..LadderSize, t \in 1..LadderSize :
       /\ players[c].position > t
       /\ harness = [stage |-> "ready", challengerPid |-> c, targetPosition |-> t,
                     before |-> PositionsOf(players), applied |-> FALSE]

LadderApply ==
  /\ harness.stage = "ready"
  /\ LET moved == applyLadderMove(players, harness.challengerPid, harness.targetPosition)
     IN  /\ players' = moved.players
         /\ harness' = [harness EXCEPT !.stage = "applied", !.applied = moved.applied]
  /\ UNCHANGED <<variant, tzWest, matches, playerCount, locked, error, editError, nextId>>

LadderReverse ==
  /\ harness.stage = "applied"
  /\ players' = reverseLadderMove(players, harness.challengerPid,
                                  harness.before[harness.challengerPid],
                                  harness.targetPosition)
  /\ harness' = [harness EXCEPT !.stage = "reversed"]
  /\ UNCHANGED <<variant, tzWest, matches, playerCount, locked, error, editError, nextId>>

NextLadder == LadderApply \/ LadderReverse

SpecLadder == InitLadder /\ [][NextLadder]_vars

(***************************************************************************)
(* Each ladder function on its own, on a roster of LadderSize players with *)
(* any positions (shared or vacant ones included), any challenger and any  *)
(* two boundary positions.                                                 *)
(***************************************************************************)
RosterAt(positions) ==
  [i \in 1..LadderSize |-> [createEmptyPlayer(i) EXCEPT !.position = positions[i]]]

InitMoves ==
  /\ variant = "cloud"
  /\ tzWest = FALSE
  /\ \E positions \in [1..LadderSize -> 1..LadderSize] : players = RosterAt(positions)
  /\ matches = <<>>
  /\ playerCount = DEFAULT_PLAYER_COUNT
  /\ locked = TRUE
  /\ error = ""
  /\ editError = ""
  /\ nextId = 0
  /\ \E c \in 1..LadderSize, start \in 1..LadderSize, t \in 1..LadderSize :
       harness = [stage |-> "ready", challengerPid |-> c, targetPosition |-> t,
                  startPosition |-> start, before |-> PositionsOf(players),
                  applied |-> FALSE]

\* applyLadderMove(players, challengerPid, targetPosition)
MoveApply ==
  /\ harness.stage = "ready"
  /\ LET moved == applyLadderMove(players, harness.challengerPid, harness.targetPosition)
     IN  /\ players' = moved.players
         /\ harness' = [harness EXCEPT !.stage = "applied", !.applied = moved.applied]
  /\ UNCHANGED <<variant, tzWest, matches, playerCount, locked, error, editError, nextId>>

\* reverseLadderMove(players, challengerPid, startPosition, targetPosition)
MoveReverse ==
  /\ harness.stage = "ready"
  /\ players' = reverseLadderMove(players, harness.challengerPid,
                                  harness.startPosition, harness.targetPosition)
  /\ harness' = [harness EXCEPT !.stage = "reversed"]
  /\ UNCHANGED <<variant, tzWest, matches, playerCount, locked, error, editError, nextId>>

NextMoves == MoveApply \/ MoveReverse

SpecMoves == InitMoves /\ [][NextMoves]_vars

(***************************************************************************)
(* Adds, then deletes: once a match has been deleted nothing is added any  *)
(* more, so a run is a sequence of Adds followed by Deletes in any order.  *)
(***************************************************************************)
InitUndo ==
  /\ variant \in {"cloud", "local"}
  /\ tzWest = FALSE
  /\ players = defaultPlayers
  /\ matches = <<>>
  /\ playerCount = DEFAULT_PLAYER_COUNT
  /\ locked = TRUE
  /\ error = ""
  /\ editError = ""
  /\ nextId = 0
  /\ harness = [stage |-> "adding"]

UndoAdd ==
  /\ harness.stage = "adding"
  /\ \E in \in AddFormsWith(SelectablePids, ValidEntries) :
       nextId < MaxAdds /\ AddStep(in) /\ error' = ""
  /\ UNCHANGED harness

UndoDelete ==
  /\ \E id \in MatchIds : DeleteStep(id)
  /\ harness' = [stage |-> "deleting"]

NextUndo ==
  \/ Unlock
  \/ harness.stage = "adding" /\ nextId = 0 /\ Rename
  \/ UndoAdd
  \/ UndoDelete

SpecUndo == InitUndo /\ [][NextUndo]_vars

(***************************************************************************)
(* Add attempts of every kind: forms the handler rejects as well as forms  *)
(* it accepts, with no challenger picked or a challenger whose name was    *)
(* cleared since.                                                          *)
(***************************************************************************)
RenameAny == \E pid \in VisiblePids, value \in Names : updatePlayerName(pid, value)

OneValidEntry == {Entry(IsoDate(4, 1), Score_64_63)}

AddAttemptForms ==
  {[matchPos |-> pos, challengerPid |-> c, winner |-> "p1", surface |-> sf,
    score |-> e.score, matchDate |-> e.date] :
      pos \in 1..playerCount, c \in VisiblePids \cup {0}, sf \in Surfaces,
      e \in OneValidEntry \cup BadEntries}

AddAttempt ==
  \E in \in AddAttemptForms : Add(in) /\ (nextId < MaxAdds \/ error' # "")

NextAddAttempts ==
  \/ Unlock
  \/ RenameAny
  \/ AddAttempt
  \/ DeleteAny

SpecAddAttempts == Init /\ [][NextAddAttempts]_vars

(***************************************************************************)
(* Edit attempts of every kind on a log of accepted matches: a rejected    *)
(* new score, a valid one, no match selected.                              *)
(***************************************************************************)
EditAttempt ==
  \E in \in EditFormsWith(MatchIds \cup {0}, ValidEntries \cup BadEntries) : Edit(in)

NextEditAttempts ==
  \/ Unlock
  \/ Rename
  \/ AddAccepted(MaxAddsSmall)
  \/ EditAttempt

SpecEditAttempts == Init /\ [][NextEditAttempts]_vars

(***************************************************************************)
(* The accepted transactions together with the roster table's counter      *)
(* cells, through which a stored counter can be set below what the log     *)
(* would give.                                                             *)
(***************************************************************************)
StatFields == {"gamesWon", "apr"}
TypedZero == <<"0">>

ManualStat ==
  \E pid \in VisiblePids, field \in StatFields : updatePlayerStat(pid, field, TypedZero)

NextManual ==
  \/ Unlock
  \/ Rename
  \/ AddAccepted(MaxAddsSmall)
  \/ DeleteAny
  \/ EditAccepted
  \/ ManualStat

SpecManual == Init /\ [][NextManual]_vars

(***************************************************************************)
(* The accepted transactions in a browser of any time zone.                *)
(***************************************************************************)
InitZones == InitIn({FALSE, TRUE})

NextZones ==
  \/ Unlock
  \/ Rename
  \/ AddAccepted(MaxAddsSmall)
  \/ DeleteAny
  \/ EditAccepted

SpecZones == InitZones /\ [][NextZones]_vars

(***************************************************************************)
(* A session that starts from a stored snapshot.  Neither the handler nor  *)
(* localStorage checks a score, so the stored log can hold a record whose  *)
(* score the present rules reject: the snapshot here is a named roster     *)
(* after one match, its score as stored being any of StoredScores.  The     *)
(* session may add a match, and then deletes or edits one match.           *)
(***************************************************************************)
StoredScores == {Trim(s) : s \in Scores}

NamedRoster ==
  [i \in 1..CAPACITY |->
     [createEmptyPlayer(i) EXCEPT !.name = IF i <= DEFAULT_PLAYER_COUNT THEN "Ann" ELSE ""]]

StoredSnapshots ==
  {Payload(DEFAULT_PLAYER_COUNT, out.players, <<[out.matches[1] EXCEPT !.score = sc]>>) :
     out \in {o \in {actuallyAddMatch(NamedRoster, <<>>, DEFAULT_PLAYER_COUNT, FALSE, in, 1) :
                       in \in AddFormsWith(1..DEFAULT_PLAYER_COUNT, ValidEntries)} :
               o.error = ""},
     sc \in StoredScores}

\* what the session starts from: fetchCloudState at mount, or loadState
LoadedFrom(snap) ==
  IF variant = "cloud" THEN fetchCloudState(saveState(EmptyStore, snap))
  ELSE {normalizeState(snap)}

InitStored ==
  /\ variant \in {"cloud", "local"}
  /\ tzWest = FALSE
  /\ playerCount = DEFAULT_PLAYER_COUNT
  /\ locked = TRUE
  /\ error = ""
  /\ editError = ""
  /\ nextId = 1
  /\ \E snap \in StoredSnapshots : \E loaded \in LoadedFrom(snap) :
       /\ players = loaded.players
       /\ matches = loaded.matches
  /\ harness = [stage |-> "loaded"]

StoredAdd ==
  /\ harness.stage = "loaded"
  /\ \E in \in AddFormsWith(SelectablePids, ValidEntries) :
       nextId < 1 + MaxAddsSmall /\ AddStep(in) /\ error' = ""
  /\ harness' = [stage |-> "added"]

\* a Delete; the harness keeps the record deleted and the roster before it
StoredDelete ==
  \E id \in MatchIds :
    /\ harness.stage \in {"loaded", "added"}
    /\ DeleteStep(id)
    /\ harness' = [stage |-> "deleted", match |-> matches[FindMatch(matches, id)],
                   before |-> players]

\* an Edit with a form the validators accept; the harness keeps the form, the
\* record as it was, the roster before, and how the handler ended
StoredEdit ==
  \E in \in EditFormsWith(MatchIds, ValidEntries) :
    /\ harness.stage \in {"loaded", "added"}
    /\ EditStep(in)
    /\ harness' = [stage |-> "edited", in |-> in,
                   original |-> matches[FindMatch(matches, in.editId)],
                   before |-> players, log |-> matches,
                   thrown |-> EditOutcomeOf(in).thrown,
                   message |-> EditOutcomeOf(in).error]

NextStored ==
  \/ Unlock
  \/ StoredAdd
  \/ StoredDelete
  \/ StoredEdit

SpecStored == InitStored /\ [][NextStored]_vars

(***************************************************************************)
(* The engine with the transaction last run on record: the harness keeps   *)
(* which of Add, Delete and Edit it was, the id of its match, and the      *)
(* ladderMoveApplied flag the record had when the transaction began (for   *)
(* an Add, the flag it wrote).                                             *)
(***************************************************************************)
InitTargets ==
  /\ variant \in {"cloud", "local"}
  /\ tzWest = FALSE
  /\ players = defaultPlayers
  /\ matches = <<>>
  /\ playerCount = DEFAULT_PLAYER_COUNT
  /\ locked = TRUE
  /\ error = ""
  /\ editError = ""
  /\ nextId = 0
  /\ harness = [stage |-> "idle", id |-> 0, applied |-> FALSE]

TargetAdd ==
  /\ \E in \in AddFormsWith(SelectablePids, ValidEntries) :
       nextId < MaxAdds /\ AddStep(in) /\ error' = ""
  /\ harness' = [stage |-> "added", id |-> nextId + 1,
                 applied |-> matches'[1].ladderMoveApplied]

TargetDelete ==
  \E id \in MatchIds :
    /\ DeleteStep(id)
    /\ harness' = [stage |-> "deleted", id |-> id,
                   applied |-> matches[FindMatch(matches, id)].ladderMoveApplied]

TargetEdit ==
  \E in \in EditFormsWith(MatchIds, ValidEntries) :
    /\ EditStep(in)
    /\ editError' = ""
    /\ harness' = [stage |-> "edited", id |-> in.editId,
                   applied |-> matches[FindMatch(matches, in.editId)].ladderMoveApplied]

NextTargets ==
  \/ Unlock
  \/ Rename
  \/ TargetAdd
  \/ TargetDelete
  \/ TargetEdit

SpecTargets == InitTargets /\ [][NextTargets]_vars

(***************************************************************************)
(* The cloud client with its store.  Add, Delete and Edit set the new      *)
(* state and save it, the handler answering ok; a load (at mount, and on   *)
(* every realtime event) replaces the state by what fetchCloudState reads. *)
(* The harness keeps the store, the transaction last run with the id of    *)
(* its match, and the ids deleted so far.                                  *)
(***************************************************************************)
InitCloud ==
  /\ variant = "cloud"
  /\ tzWest = FALSE
  /\ players = defaultPlayers
  /\ matches = <<>>
  /\ playerCount = DEFAULT_PLAYER_COUNT
  /\ locked = TRUE
  /\ error = ""
  /\ editError = ""
  /\ nextId = 0
  /\ harness = [stage |-> "idle", id |-> 0, store |-> EmptyStore, deleted |-> {}]

\* await saveCloudState(pin, nextState), answered { ok: true }
Saved(kind, id, gone) ==
  harness' = [stage |-> kind, id |-> id,
              store |-> saveState(harness.store, Payload(playerCount, players', matches')),
              deleted |-> gone]

CloudAdd ==
  /\ \E in \in AddFormsWith(SelectablePids, ValidEntries) :
       nextId < MaxAddsSmall /\ AddStep(in) /\ error' = ""
  /\ Saved("added", nextId + 1, harness.deleted)

CloudDelete ==
  \E id \in MatchIds :
    /\ DeleteStep(id)
    /\ Saved("deleted", id, harness.deleted \cup {id})

\* an Edit that ends without an error, thrown or reported
CloudEdit ==
  \E in \in EditFormsWith(MatchIds, ValidEntries) :
    /\ ~EditOutcomeOf(in).thrown
    /\ EditStep(in)
    /\ editError' = ""
    /\ Saved("edited", in.editId, harness.deleted)

\* load() of the mount effect: setState(cloudState)
CloudLoad ==
  /\ \E loaded \in fetchCloudState(harness.store) :
       /\ players' = loaded.players
       /\ matches' = loaded.matches
       /\ playerCount' = loaded.playerCount
  /\ harness' = [harness EXCEPT !.stage = "loaded", !.id = 0]
  /\ UNCHANGED <<variant, tzWest, locked, error, editError, nextId>>

NextCloud ==
  \/ Unlock
  \/ Rename
  \/ CloudAdd
  \/ CloudDelete
  \/ CloudEdit
  \/ CloudLoad

SpecCloud == InitCloud /\ [][NextCloud]_vars

(***************************************************************************)
(* Two cloud clients on one store.  Both have loaded the same snapshot, a  *)
(* named roster without matches; each adds one match and posts saveState.  *)
(* The handler serves a request by three awaited writes (players, matches, *)
(* settings), and the writes of the two requests interleave in any order.  *)
(* players, matches and playerCount are the first client's state; the      *)
(* harness keeps the second client's, the store, each request with the     *)
(* number of writes done for it, and the order in which they were answered.*)
(***************************************************************************)
NoRequest == [sent |-> FALSE, written |-> 0, payload |-> Payload(0, <<>>, <<>>)]

InitSaves ==
  /\ variant = "cloud"
  /\ tzWest = FALSE
  /\ players = NamedRoster
  /\ matches = <<>>
  /\ playerCount = DEFAULT_PLAYER_COUNT
  /\ locked = TRUE
  /\ error = ""
  /\ editError = ""
  /\ nextId = 0
  /\ harness = [stage |-> "saving",
                store |-> saveState(EmptyStore,
                                    Payload(DEFAULT_PLAYER_COUNT, NamedRoster, <<>>)),
                other |-> Payload(DEFAULT_PLAYER_COUNT, NamedRoster, <<>>),
                requests |-> <<NoRequest, NoRequest>>,
                answered |-> <<>>]

Request(pc, ps, ms) == [sent |-> TRUE, written |-> 0, payload |-> Payload(pc, ps, ms)]

\* the first client adds a match and posts its state
FirstClientAdd ==
  /\ ~harness.requests[1].sent
  /\ \E in \in AddFormsWith(SelectablePids, ValidEntries) : AddStep(in) /\ error' = ""
  /\ harness' = [harness EXCEPT !.requests[1] = Request(playerCount, players', matches')]

\* the second client, unlocked, adds a match of its own and posts its state;
\* its uid() is an id the first client does not issue
SecondClientAdd ==
  /\ ~harness.requests[2].sent
  /\ \E in \in AddFormsWith(1..DEFAULT_PLAYER_COUNT, ValidEntries) :
       LET out == actuallyAddMatch(harness.other.players, harness.other.matches,
                                   harness.other.playerCount, FALSE, in, MaxAdds + 1)
       IN  /\ out.error = ""
           /\ harness' = [harness EXCEPT
                 !.other = Payload(harness.other.playerCount, out.players, out.matches),
                 !.requests[2] = Request(harness.other.playerCount, out.players,
                                         out.matches)]
  /\ UNCHANGED <<variant, tzWest, players, matches, playerCount, locked, error,
                 editError, nextId>>

\* the next awaited write of the handler for request c; the third one is
\* followed by res.json({ ok: true })
HandlerWrite(c) ==
  /\ harness.requests[c].sent
  /\ harness.requests[c].written < 3
  /\ LET r == harness.requests[c]
         written == r.written + 1
     IN  harness' = [harness EXCEPT
           !.store = IF written = 1 THEN SavePlayers(harness.store, r.payload)
                     ELSE IF written = 2 THEN SaveMatches(harness.store, r.payload)
                     ELSE SaveSettings(harness.store, r.payload),
           !.requests[c].written = written,
           !.answered = IF written = 3 THEN Append(harness.answered, c)
                        ELSE harness.answered]
  /\ UNCHANGED <<variant, tzWest, players, matches, playerCount, locked, error,
                 editError, nextId>>

NextSaves ==
  \/ Unlock
  \/ FirstClientAdd
  \/ SecondClientAdd
  \/ \E c \in 1..2 : HandlerWrite(c)

SpecSaves == InitSaves /\ [][NextSaves]_vars

(***************************************************************************)
(* The handler alone, serving requests of any kind against a store: the    *)
(* harness keeps the store, ADMIN_PIN, and the request last served with    *)
(* its status and the store it found.                                      *)
(***************************************************************************)
Pins == {Undefined, "", "1234", "0000"}

\* snapshots a caller may send
SentPayloads ==
  {Payload(DEFAULT_PLAYER_COUNT, NamedRoster, <<>>),
   Payload(CAPACITY, defaultPlayers, <<>>)}
    \cup {Payload(DEFAULT_PLAYER_COUNT, out.players, out.matches) :
            out \in {actuallyAddMatch(NamedRoster, <<>>, DEFAULT_PLAYER_COUNT, FALSE,
                                      [matchPos |-> 1, challengerPid |-> 2, winner |-> w,
                                       surface |-> "Clay", score |-> Score_64_63,
                                       matchDate |-> IsoDate(4, 1)], 1) :
                     w \in Winners}}

Requests ==
  {[method |-> m, pin |-> p, action |-> a, arrays |-> arr, payload |-> pl] :
     m \in {"POST", "GET"}, p \in Pins, a \in {"saveState", "loadState"},
     arr \in BOOLEAN, pl \in SentPayloads}

InitHandler ==
  /\ variant = "cloud"
  /\ tzWest = FALSE
  /\ players = defaultPlayers
  /\ matches = <<>>
  /\ playerCount = DEFAULT_PLAYER_COUNT
  /\ locked = TRUE
  /\ error = ""
  /\ editError = ""
  /\ nextId = 0
  /\ \E adminPin \in {Undefined, "", "1234"} :
       harness = [stage |-> "listening", adminPin |-> adminPin, store |-> EmptyStore,
                  before |-> EmptyStore, status |-> 0]

Serve ==
  /\ \E req \in Requests :
       LET res == handler(harness.store, harness.adminPin, req)
       IN  harness' = [stage |-> "answered", adminPin |-> harness.adminPin,
                       store |-> res.store, before |-> harness.store,
                       status |-> res.status, request |-> req]
  /\ UNCHANGED <<variant, tzWest, players, matches, playerCount, locked, error,
                 editError, nextId>>

NextHandler == Serve

SpecHandler == InitHandler /\ [][NextHandler]_vars

(***************************************************************************)
(* The lock and the dialogs.  The harness keeps the dialog state of App:   *)
(* the PIN modal with its purpose and the match id of its payload, the     *)
(* delete confirmation with deleteTargetId, the edit modal with editId     *)
(* (0: none).  Every button acts whenever its handler lets it: the Lock    *)
(* button stays in the page, and enabled, while a modal is open.           *)
(***************************************************************************)
DialogsClosed ==
  [stage |-> "dialogs", pinOpen |-> FALSE, pinPurpose |-> "unlock", pinMatchId |-> 0,
   deleteConfirmOpen |-> FALSE, deleteTargetId |-> 0, editOpen |-> FALSE, editId |-> 0]

InitLock ==
  /\ variant = "cloud"
  /\ tzWest = FALSE
  /\ players = defaultPlayers
  /\ matches = <<>>
  /\ playerCount = DEFAULT_PLAYER_COUNT
  /\ locked = TRUE
  /\ error = ""
  /\ editError = ""
  /\ nextId = 0
  /\ harness = DialogsClosed

\* openPin(purpose, { matchId })
openPin(purpose, matchId) ==
  harness' = [harness EXCEPT !.pinOpen = TRUE, !.pinPurpose = purpose,
                             !.pinMatchId = matchId]

\* the Admin unlock button
RequestUnlock ==
  /\ locked
  /\ openPin("unlock", 0)
  /\ UNCHANGED <<variant, tzWest, players, matches, playerCount, locked, error,
                 editError, nextId>>

\* requestAddMatch
RequestAdd ==
  /\ IF locked THEN error' = MsgLocked /\ UNCHANGED harness
     ELSE error' = "" /\ openPin("add", 0)
  /\ UNCHANGED <<variant, tzWest, players, matches, playerCount, locked, editError,
                 nextId>>

\* requestDeleteMatch(id)
RequestDelete ==
  /\ ~locked
  /\ \E id \in MatchIds : openPin("delete", id)
  /\ UNCHANGED <<variant, tzWest, players, matches, playerCount, locked, error,
                 editError, nextId>>

\* openEditMatch(match)
OpenEdit ==
  /\ ~locked
  /\ \E id \in MatchIds : harness' = [harness EXCEPT !.editOpen = TRUE, !.editId = id]
  /\ editError' = ""
  /\ UNCHANGED <<variant, tzWest, players, matches, playerCount, locked, error, nextId>>

\* requestSaveEdit, the Save button of the edit modal
RequestSaveEdit ==
  /\ harness.editOpen
  /\ ~locked
  /\ editError' = ""
  /\ openPin("edit", 0)
  /\ UNCHANGED <<variant, tzWest, players, matches, playerCount, locked, error, nextId>>

\* submitPin with a PIN typed, pinPurpose = "unlock"
SubmitPinUnlock ==
  /\ harness.pinOpen /\ harness.pinPurpose = "unlock"
  /\ locked' = FALSE
  /\ harness' = [harness EXCEPT !.pinOpen = FALSE]
  /\ UNCHANGED <<variant, tzWest, players, matches, playerCount, error, editError,
                 nextId>>

\* submitPin, pinPurpose = "add": closePin, then actuallyAddMatch
SubmitPinAdd ==
  /\ harness.pinOpen /\ harness.pinPurpose = "add"
  /\ nextId < MaxAddsSmall
  /\ \E in \in AddFormsWith(SelectablePids, ValidEntries) : AddStep(in)
  /\ harness' = [harness EXCEPT !.pinOpen = FALSE]

\* submitPin, pinPurpose = "delete": the confirmation opens on the match
SubmitPinDelete ==
  /\ harness.pinOpen /\ harness.pinPurpose = "delete"
  /\ harness' = [harness EXCEPT !.pinOpen = FALSE, !.deleteConfirmOpen = TRUE,
                                !.deleteTargetId = harness.pinMatchId]
  /\ UNCHANGED <<variant, tzWest, players, matches, playerCount, locked, error,
                 editError, nextId>>

\* the "Yes, delete" button: deleteMatchConfirmed
ConfirmDelete ==
  /\ harness.deleteConfirmOpen
  /\ DeleteStep(harness.deleteTargetId)
  /\ harness' = [harness EXCEPT !.deleteConfirmOpen = FALSE, !.deleteTargetId = 0]

\* submitPin, pinPurpose = "edit": closePin, then actuallySaveEdit; the edit
\* modal closes when the edit went through
SubmitPinEdit ==
  /\ harness.pinOpen /\ harness.pinPurpose = "edit"
  /\ \E in \in EditFormsWith({harness.editId}, ValidEntries) :
       /\ EditStep(in)
       /\ harness' = IF EditOutcomeOf(in).error = ""
                     THEN [harness EXCEPT !.pinOpen = FALSE, !.editOpen = FALSE,
                                          !.editId = 0]
                     ELSE [harness EXCEPT !.pinOpen = FALSE]

NextLock ==
  \/ RequestUnlock
  \/ SubmitPinUnlock
  \/ Lock
  \/ Rename
  \/ RequestAdd
  \/ SubmitPinAdd
  \/ RequestDelete
  \/ SubmitPinDelete
  \/ ConfirmDelete
  \/ OpenEdit
  \/ RequestSaveEdit
  \/ SubmitPinEdit

SpecLock == InitLock /\ [][NextLock]_vars

(***************************************************************************)
(* validateSets alone, on every sequence of up to MaxSets set pairs whose  *)
(* sides are drawn from Sides.                                             *)
(***************************************************************************)
Sides == {-1, 4, 5, 6, 7, 9, 10}

SetPairs == {[p1 |-> a, p2 |-> b] : a \in Sides, b \in Sides}

SetSequences == UNION {[1..n -> SetPairs] : n \in 0..MaxSets}

InitSets ==
  /\ variant = "cloud"
  /\ tzWest = FALSE
  /\ players = defaultPlayers
  /\ matches = <<>>
  /\ playerCount = DEFAULT_PLAYER_COUNT
  /\ locked = TRUE
  /\ error = ""
  /\ editError = ""
  /\ nextId = 0
  /\ \E sets \in SetSequences :
       harness = [stage |-> "sets", sets |-> sets, ok |-> FALSE, message |-> ""]

Validate ==
  /\ harness.stage = "sets"
  /\ LET validity == validateSets(harness.sets)
     IN  harness' = [stage |-> "validated", sets |-> harness.sets,
                     ok |-> validity.ok, message |-> validity.message]
  /\ UNCHANGED <<variant, tzWest, players, matches, playerCount, locked, error,
                 editError, nextId>>

NextSets == Validate

SpecSets == InitSets /\ [][NextSets]_vars

(***************************************************************************)
(* parseScore alone, on every string of up to MaxScoreLen characters of    *)
(* ScoreChars.                                                             *)
(***************************************************************************)
ScoreChars == {"6", "4", "-", ":", "x", SP}

ScoreStrings == UNION {[1..n -> ScoreChars] : n \in 0..MaxScoreLen}

InitParse ==
  /\ variant = "cloud"
  /\ tzWest = FALSE
  /\ players = defaultPlayers
  /\ matches = <<>>
  /\ playerCount = DEFAULT_PLAYER_COUNT
  /\ locked = TRUE
  /\ error = ""
  /\ editError = ""
  /\ nextId = 0
  /\ \E score \in ScoreStrings :
       harness = [stage |-> "score", score |-> score, parsed |-> ParseFail("", <<>>)]

Parse ==
  /\ harness.stage = "score"
  /\ harness' = [stage |-> "parsed", score |-> harness.score,
                 parsed |-> ParseScoreOf(harness.score)]
  /\ UNCHANGED <<variant, tzWest, players, matches, playerCount, locked, error,
                 editError, nextId>>

NextParse == Parse

SpecParse == InitParse /\ [][NextParse]_vars

(***************************************************************************)
(* parseScore on strings with spaces, newlines and tabs: every string of   *)
(* up to MaxSpacedLen characters of SpacedChars.                           *)
(***************************************************************************)
SpacedChars == {"6", "4", "-", SP, NL, TAB}

SpacedStrings == UNION {[1..n -> SpacedChars] : n \in 0..MaxSpacedLen}

InitSpaced ==
  /\ variant = "cloud"
  /\ tzWest = FALSE
  /\ players = defaultPlayers
  /\ matches = <<>>
  /\ playerCount = DEFAULT_PLAYER_COUNT
  /\ locked = TRUE
  /\ error = ""
  /\ editError = ""
  /\ nextId = 0
  /\ \E score \in SpacedStrings :
       harness = [stage |-> "score", score |-> score, parsed |-> ParseFail("", <<>>)]

SpecSpaced == InitSpaced /\ [][NextParse]_vars

(***************************************************************************)
(* The player count input.  The harness keeps the value last typed and,    *)
(* from a shrink until the count is set again, the count and the roster    *)
(* rows shown before the shrink.                                           *)
(***************************************************************************)
\* NextPlayerCount without the clamp
NextPlayerCountAsTyped(value) == asNumber(value, Num(DEFAULT_PLAYER_COUNT)).val

\* the count the input's onChange sets for the typed value
NextPlayerCount(value) == clamp(asNumber(value, Num(DEFAULT_PLAYER_COUNT)).val, 2, CAPACITY)

\* visiblePlayers: the roster rows shown for a count
visiblePlayers(ps, pc) ==
  SelectSeq(ps, LAMBDA p : p.position >= 1 /\ p.position <= pc)

CountInputs == {<<>>, <<"0">>, <<"2">>, <<"3">>, <<"4">>, <<"9">>}

CountIdle == [stage |-> "idle", requested |-> <<>>, count |-> 0, shown |-> <<>>]

InitCount ==
  /\ variant \in {"cloud", "local"}
  /\ tzWest = FALSE
  /\ players = defaultPlayers
  /\ matches = <<>>
  /\ playerCount = DEFAULT_PLAYER_COUNT
  /\ locked = TRUE
  /\ error = ""
  /\ editError = ""
  /\ nextId = 0
  /\ harness = CountIdle

\* onChange of the player count input: setState({ ...prev, playerCount: next })
PlayerCountStep(value) ==
  /\ ~locked
  /\ playerCount' = NextPlayerCount(value)
  /\ UNCHANGED <<variant, tzWest, players, matches, locked, error, editError, nextId>>

\* the same, the harness following the shrinks and growths
setPlayerCount(value) ==
  /\ PlayerCountStep(value)
  /\ harness' =
       IF harness.stage = "shrunk"
       THEN [harness EXCEPT !.stage = IF playerCount' = harness.count THEN "regrown"
                                      ELSE "count",
                            !.requested = value]
       ELSE IF playerCount' < playerCount
       THEN [stage |-> "shrunk", requested |-> value, count |-> playerCount,
             shown |-> visiblePlayers(players, playerCount)]
       ELSE [stage |-> "count", requested |-> value, count |-> playerCount,
             shown |-> visiblePlayers(players, playerCount)]

CountTransaction ==
  /\ harness.stage # "shrunk"
  /\ \/ Rename
     \/ AddAccepted(MaxAddsSmall)
     \/ DeleteAny

NextCount ==
  \/ Unlock
  \/ Lock
  \/ CountTransaction
  \/ \E value \in CountInputs : setPlayerCount(value)

SpecCount == InitCount /\ [][NextCount]_vars

(***************************************************************************)
(* The cloud client while its saves are awaited.  Add, Delete and Edit set *)
(* the new state and post it; the answer comes in a later step, ok or not; *)
(* a realtime event runs load() at any time.  The harness keeps the store, *)
(* the transaction whose save is awaited or answered, the snapshots before *)
(* and after it, and whether a load ran since.                             *)
(***************************************************************************)
Snapshot(pc, ps, ms) == [playerCount |-> pc, players |-> ps, matches |-> ms]

NoSnapshot == Snapshot(0, <<>>, <<>>)

InitOutage ==
  /\ variant = "cloud"
  /\ tzWest = FALSE
  /\ players = defaultPlayers
  /\ matches = <<>>
  /\ playerCount = DEFAULT_PLAYER_COUNT
  /\ locked = TRUE
  /\ error = ""
  /\ editError = ""
  /\ nextId = 0
  /\ harness = [stage |-> "idle", kind |-> "", store |-> EmptyStore,
                pre |-> NoSnapshot, post |-> NoSnapshot, reloaded |-> FALSE,
                posts |-> 0]

\* setState(nextState) done, saveCloudState(pin, nextState) awaited
Posted(kind) ==
  harness' = [stage |-> "pending", kind |-> kind, store |-> harness.store,
              pre |-> Snapshot(playerCount, players, matches),
              post |-> Snapshot(playerCount', players', matches'),
              reloaded |-> FALSE, posts |-> harness.posts + 1]

OutageAdd ==
  /\ harness.stage # "pending" /\ harness.posts < MaxPosts
  /\ \E in \in AddFormsWith(SelectablePids, OneValidEntry) :
       nextId < MaxAddsSmall /\ AddStep(in) /\ error' = ""
  /\ Posted("add")

OutageDelete ==
  /\ harness.stage # "pending" /\ harness.posts < MaxPosts
  /\ \E id \in MatchIds : DeleteStep(id)
  /\ Posted("delete")

OutageEdit ==
  /\ harness.stage # "pending" /\ harness.posts < MaxPosts
  /\ \E in \in EditFormsWith(MatchIds, OneValidEntry) :
       /\ ~EditOutcomeOf(in).thrown
       /\ EditStep(in)
       /\ editError' = ""
  /\ Posted("edit")

\* the awaited save answered { ok: true }
SaveAnswered ==
  /\ harness.stage = "pending"
  /\ harness' = [harness EXCEPT
                   !.stage = "saved",
                   !.store = saveState(harness.store,
                                       Payload(harness.post.playerCount,
                                               harness.post.players,
                                               harness.post.matches))]
  /\ UNCHANGED <<variant, tzWest, players, matches, playerCount, locked, error,
                 editError, nextId>>

\* the ways a save fails: the message of the thrown Error, and how many of the
\* handler's writes were done before
Failures ==
  {[message |-> "Bad PIN", written |-> 0],
   [message |-> "Failed to fetch", written |-> 0],
   [message |-> "Failed to save.", written |-> 1],
   [message |-> "Failed to save.", written |-> 2]}

StoreAfter(store, payload, written) ==
  IF written = 0 THEN store
  ELSE IF written = 1 THEN SavePlayers(store, payload)
  ELSE SaveMatches(SavePlayers(store, payload), payload)

\* the catch clause leaving the messages as they were
SaveFailureSwallowed(kind, message, err, eerr) == [error |-> err, editError |-> eerr]

\* the catch clause of the awaited save: setError(message) after an Add or a
\* Delete, setEditError(message) after an Edit
SaveFailureReport(kind, message, err, eerr) ==
  IF kind = "edit" THEN [error |-> err, editError |-> message]
  ELSE [error |-> message, editError |-> eerr]

\* the awaited save threw
SaveFailed ==
  /\ harness.stage = "pending"
  /\ \E failure \in Failures :
       /\ LET report == SaveFailureReport(harness.kind, failure.message, error, editError)
          IN  /\ error' = report.error
              /\ editError' = report.editError
       /\ harness' = [harness EXCEPT
                        !.stage = "failed",
                        !.store = StoreAfter(harness.store,
                                             Payload(harness.post.playerCount,
                                                     harness.post.players,
                                                     harness.post.matches),
                                             failure.written)]
  /\ UNCHANGED <<variant, tzWest, players, matches, playerCount, locked, nextId>>

\* load() run by a realtime event: setState(cloudState); one load is followed
\* per transaction
RealtimeLoad ==
  /\ harness.stage # "idle" /\ ~harness.reloaded
  /\ \E loaded \in fetchCloudState(harness.store) :
       /\ players' = loaded.players
       /\ matches' = loaded.matches
       /\ playerCount' = loaded.playerCount
  /\ harness' = [harness EXCEPT !.reloaded = TRUE]
  /\ UNCHANGED <<variant, tzWest, locked, error, editError, nextId>>

\* the roster is typed into between transactions, not while a save is awaited
OutageRename == harness.stage # "pending" /\ Rename

NextOutage ==
  \/ Unlock
  \/ OutageRename
  \/ OutageAdd
  \/ OutageDelete
  \/ OutageEdit
  \/ SaveAnswered
  \/ SaveFailed
  \/ RealtimeLoad

SpecOutage == InitOutage /\ [][NextOutage]_vars

(***************************************************************************)
(* Delete and Edit on a target that is not in the log: an id deleted       *)
(* before, an id never given, or none.  The harness counts the attempts    *)
(* and keeps the last target.                                              *)
(***************************************************************************)
InitMissing ==
  /\ variant \in {"cloud", "local"}
  /\ tzWest = FALSE
  /\ players = defaultPlayers
  /\ matches = <<>>
  /\ playerCount = DEFAULT_PLAYER_COUNT
  /\ locked = TRUE
  /\ error = ""
  /\ editError = ""
  /\ nextId = 0
  /\ harness = [stage |-> "idle", id |-> 0, tries |-> 0]

\* the ids that name no record of the log
MissingIds == (0..(MaxAdds + 1)) \ MatchIds

MissingDelete ==
  \E id \in MissingIds :
    /\ harness.tries < MaxTries
    /\ DeleteStep(id)
    /\ harness' = [stage |-> "delete", id |-> id, tries |-> harness.tries + 1]

MissingEdit ==
  \E in \in EditFormsWith(MissingIds, OneValidEntry) :
    /\ harness.tries < MaxTries
    /\ EditStep(in)
    /\ harness' = [stage |-> "edit", id |-> in.editId, tries |-> harness.tries + 1]

NextMissing ==
  \/ Unlock
  \/ Rename
  \/ AddAccepted(MaxAdds)
  \/ DeleteAny
  \/ MissingDelete
  \/ MissingEdit

SpecMissing == InitMissing /\ [][NextMissing]_vars

(***************************************************************************)
(* The match form with its Challenger select.  challengerPid is set by the *)
(* select's onChange, from the options of selectablePlayers, and stays as  *)
(* set while names and the player count are edited.  The harness keeps it  *)
(* (0: none picked).                                                       *)
(***************************************************************************)
InitSelection ==
  /\ variant \in {"cloud", "local"}
  /\ tzWest = FALSE
  /\ players = defaultPlayers
  /\ matches = <<>>
  /\ playerCount = DEFAULT_PLAYER_COUNT
  /\ locked = TRUE
  /\ error = ""
  /\ editError = ""
  /\ nextId = 0
  /\ harness = [stage |-> "form", challengerPid |-> 0]

\* onChange of the Challenger select: setChallengerPid(e.target.value)
SelectChallenger ==
  /\ ~locked
  /\ \E pid \in SelectablePids : harness' = [harness EXCEPT !.challengerPid = pid]
  /\ UNCHANGED <<variant, tzWest, players, matches, playerCount, locked, error,
                 editError, nextId>>

SelectionCount == \E value \in CountInputs : PlayerCountStep(value) /\ UNCHANGED harness

\* actuallyAddMatch with the challenger the form holds
SelectionAdd ==
  /\ nextId < MaxAddsSmall
  /\ \E in \in AddFormsWith({harness.challengerPid}, OneValidEntry) : AddStep(in)
  /\ UNCHANGED harness

NextSelection ==
  \/ Unlock
  \/ RenameAny
  \/ SelectChallenger
  \/ SelectionCount
  \/ SelectionAdd

SpecSelection == InitSelection /\ [][NextSelection]_vars

(***************************************************************************)
(* The accepted transactions with what was declared in the form.  The      *)
(* harness keeps the transaction last run, the id of its match, and the    *)
(* winner and the score typed for it.                                      *)
(***************************************************************************)
InitDeclared ==
  /\ variant \in {"cloud", "local"}
  /\ tzWest = FALSE
  /\ players = defaultPlayers
  /\ matches = <<>>
  /\ playerCount = DEFAULT_PLAYER_COUNT
  /\ locked = TRUE
  /\ error = ""
  /\ editError = ""
  /\ nextId = 0
  /\ harness = [stage |-> "idle", id |-> 0, winner |-> "", score |-> <<>>]

DeclaredAdd ==
  \E in \in AddFormsWith(SelectablePids, ValidEntries) :
    /\ nextId < MaxAdds
    /\ AddStep(in)
    /\ error' = ""
    /\ harness' = [stage |-> "added", id |-> nextId + 1, winner |-> in.winner,
                   score |-> in.score]

DeclaredEdit ==
  \E in \in EditFormsWith(MatchIds, ValidEntries) :
    /\ ~EditOutcomeOf(in).thrown
    /\ EditStep(in)
    /\ editError' = ""
    /\ harness' = [stage |-> "edited", id |-> in.editId, winner |-> in.editWinner,
                   score |-> in.editScore]

DeclaredDelete ==
  \E id \in MatchIds :
    /\ DeleteStep(id)
    /\ harness' = [stage |-> "deleted", id |-> id, winner |-> "", score |-> <<>>]

NextDeclared ==
  \/ Unlock
  \/ Rename
  \/ DeclaredAdd
  \/ DeclaredEdit
  \/ DeclaredDelete

SpecDeclared == InitDeclared /\ [][NextDeclared]_vars

(***************************************************************************)
(* Adds undone last first.  An Add pushes the positions and counters that  *)
(* held before it; the only Delete is that of the match added last among   *)
(* those still in the log, which pops them.  The harness keeps the stack,  *)
(* and the standing to compare with after a Delete.                        *)
(***************************************************************************)
\* positions and counters of every player of a roster
StandingOf(ps) ==
  [i \in 1..Len(ps) |->
     [pid |-> ps[i].pid, position |-> ps[i].position,
      counters |-> [f \in {"matchesPlayed", "matchesWon", "setsWon", "setsLost",
                           "gamesWon", "gamesLost"} \cup MonthKeys |-> ps[i][f]]]]

InitStack ==
  /\ variant \in {"cloud", "local"}
  /\ tzWest \in BOOLEAN
  /\ players = defaultPlayers
  /\ matches = <<>>
  /\ playerCount = DEFAULT_PLAYER_COUNT
  /\ locked = TRUE
  /\ error = ""
  /\ editError = ""
  /\ nextId = 0
  /\ harness = [stage |-> "idle", stack |-> <<>>]

StackAdd ==
  /\ \E in \in AddFormsWith(SelectablePids, ValidEntries) :
       nextId < MaxAdds /\ AddStep(in) /\ error' = ""
  /\ harness' = [stage |-> "added", stack |-> <<StandingOf(players)>> \o harness.stack]

\* Delete of the newest record of the log
StackDelete ==
  /\ matches # <<>>
  /\ DeleteStep(matches[1].id)
  /\ harness' = [stage |-> "deleted", stack |-> Tail(harness.stack)]

NextStack ==
  \/ Unlock
  \/ Rename
  \/ StackAdd
  \/ StackDelete

SpecStack == InitStack /\ [][NextStack]_vars

(***************************************************************************)
(* Reloads in flight.  Every realtime event calls load(): the fetch is     *)
(* started, the store is read, and later, when the fetch resolves,         *)
(* setState(cloudState) runs; nothing orders the resolutions of the loads  *)
(* in flight.  Another admin's saves change the store in between.  The     *)
(* harness keeps the store and, in the order they were started, the loads  *)
(* with what each one read.                                                *)
(***************************************************************************)
RemoteNames == {"Ann", "Bob"}

\* the roster another admin saves, its first player named n
RemoteRoster(n) ==
  [i \in 1..CAPACITY |->
     IF i = 1 THEN [createEmptyPlayer(i) EXCEPT !.name = n] ELSE createEmptyPlayer(i)]

InitReloads ==
  /\ variant = "cloud"
  /\ tzWest = FALSE
  /\ players = defaultPlayers
  /\ matches = <<>>
  /\ playerCount = DEFAULT_PLAYER_COUNT
  /\ locked = TRUE
  /\ error = ""
  /\ editError = ""
  /\ nextId = 0
  /\ harness = [stage |-> "idle", store |-> EmptyStore, loads |-> <<>>]

\* a saveState of another admin, answered { ok: true }
RemoteSave ==
  /\ \E n \in RemoteNames, pc \in 2..CAPACITY :
       harness' = [harness EXCEPT
                     !.stage = "saved",
                     !.store = saveState(harness.store, Payload(pc, RemoteRoster(n), <<>>))]
  /\ UNCHANGED <<variant, tzWest, players, matches, playerCount, locked, error,
                 editError, nextId>>

\* load() called by a realtime event: the fetch is started
LoadStart ==
  /\ Len(harness.loads) < MaxLoads
  /\ harness' = [harness EXCEPT
                   !.stage = "loading",
                   !.loads = Append(@, [stage |-> "started", result |-> NoSnapshot])]
  /\ UNCHANGED <<variant, tzWest, players, matches, playerCount, locked, error,
                 editError, nextId>>

\* the selects of fetchCloudState read the store
LoadFetch ==
  /\ \E i \in 1..Len(harness.loads) :
       /\ harness.loads[i].stage = "started"
       /\ \E loaded \in fetchCloudState(harness.store) :
            harness' = [harness EXCEPT
                          !.loads[i] = [stage |-> "fetched",
                                        result |-> Snapshot(loaded.playerCount,
                                                            loaded.players,
                                                            loaded.matches)]]
  /\ UNCHANGED <<variant, tzWest, players, matches, playerCount, locked, error,
                 editError, nextId>>

\* the awaited fetch resolves: setState(cloudState)
LoadDone ==
  /\ \E i \in 1..Len(harness.loads) :
       /\ harness.loads[i].stage = "fetched"
       /\ players' = harness.loads[i].result.players
       /\ matches' = harness.loads[i].result.matches
       /\ playerCount' = harness.loads[i].result.playerCount
       /\ harness' = [harness EXCEPT !.stage = "loaded", !.loads[i].stage = "done"]
  /\ UNCHANGED <<variant, tzWest, locked, error, editError, nextId>>

NextReloads ==
  \/ RemoteSave
  \/ LoadStart
  \/ LoadFetch
  \/ LoadDone

SpecReloads == InitReloads /\ [][NextReloads]_vars

(***************************************************************************)
(* Properties.                                                             *)
(***************************************************************************)
IsPermutation(ps) ==
  /\ \A i, j \in 1..Len(ps) : ps[i].position = ps[j].position => i = j
  /\ {ps[i].position : i \in 1..Len(ps)} = 1..Len(ps)

\* C1: from the initial roster, after any sequence of successful Add, Delete
\* and Edit transactions no two players hold the same position and the held
\* positions are exactly 1..capacity.
C1_PositionsArePermutation == IsPermutation(players) /\ Len(players) = CAPACITY

\* C2: on a roster whose positions form a permutation, with a challenger ranked
\* below the target position, reversing the applied move with the challenger's
\* original position and the target position gives every player the position
\* it had before.
C2_ReverseRestoresPositions ==
  harness.stage = "reversed" => PositionsOf(players) = harness.before

\* a reversed move that shifted at least two players and left one above the
\* interval untouched
C2_Witness ==
  /\ harness.stage = "reversed"
  /\ harness.applied
  /\ harness.before[harness.challengerPid] - harness.targetPosition >= 2
  /\ harness.targetPosition >= 2
  /\ PositionsOf(players) = harness.before

\* what Add of the form `in` gives on the current snapshot, and what deleting
\* the match it created gives next
AddThenDelete(in) ==
  LET added == actuallyAddMatch(players, matches, playerCount, locked, in, nextId + 1)
  IN  [added |-> added,
       deleted |-> deleteMatchConfirmed(added.players, added.matches, nextId + 1)]

\* C3: on every snapshot, an Add that succeeds followed at once by the deletion
\* of the match it created gives back every player's position and counters and
\* the match log.
C3_AddThenDeleteRestores ==
  \A in \in AddFormsWith(SelectablePids, ValidEntries) :
    LET r == AddThenDelete(in)
    IN  r.added.error = "" => r.deleted.players = players /\ r.deleted.matches = matches

\* positions and counters of the roster, names aside
Unnamed(ps) == [i \in 1..Len(ps) |-> [ps[i] EXCEPT !.name = ""]]

\* C4: after any sequence of successful Adds from the initial snapshot, once
\* every added match has been deleted, in any order, the positions and the
\* counters are those of the initial snapshot.
C4_DeletingAllRestores ==
  (harness.stage = "deleting" /\ matches = <<>>) => Unnamed(players) = defaultPlayers

\* Delete of the match `id`, then Add of a match between the same two players
\* with the fields of the edit modal `in`: the form names the challenger and
\* the position the opponent holds once the match is deleted
DeleteThenAdd(id, in) ==
  LET m == matches[FindMatch(matches, id)]
      deleted == deleteMatchConfirmed(players, matches, id)
      opponent == deleted.players[FindByPid(deleted.players, m.opponentPid)]
  IN  actuallyAddMatch(deleted.players, deleted.matches, playerCount, locked,
                       [matchPos |-> opponent.position,
                        challengerPid |-> m.challengerPid,
                        winner |-> in.editWinner, surface |-> in.editSurface,
                        score |-> in.editScore, matchDate |-> in.editDate],
                       nextId + 1)

\* the fields of a match record, its id aside
RecordFields(m) ==
  [challengerPid |-> m.challengerPid, opponentPid |-> m.opponentPid,
   challengerStartPos |-> m.challengerStartPos,
   opponentStartPos |-> m.opponentStartPos,
   ladderMoveApplied |-> m.ladderMoveApplied, winnerId |-> m.winnerId,
   score |-> m.score, date |-> m.date, surface |-> m.surface]

EditMatchesDeleteThenAdd(in) ==
  LET m == matches[FindMatch(matches, in.editId)]
      edit == EditOutcomeOf(in)
      readd == DeleteThenAdd(in.editId, in)
  IN  (/\ edit.error = ""
       /\ ~edit.thrown
       /\ readd.error = ""
       /\ readd.matches[1].opponentPid = m.opponentPid)
      => /\ edit.players = readd.players
         /\ RecordFields(edit.matches[FindMatch(edit.matches, in.editId)])
              = RecordFields(readd.matches[1])

\* C5: in both variants, for every match M of the log and every valid
\* replacement Q, Edit(M, Q) gives the same positions, counters and record
\* fields as Delete(M) followed by Add of a match between the same two players
\* with Q's fields.
C5_EditIsDeleteThenAdd ==
  \A in \in EditFormsWith(MatchIds, ValidEntries) : EditMatchesDeleteThenAdd(in)

CounterFields ==
  {"matchesPlayed", "matchesWon", "setsWon", "setsLost", "gamesWon", "gamesLost"}
    \cup MonthKeys

\* the season month a date lies in, as written in the date
CalendarKey(dateISO) ==
  IF ~dateISO.valid THEN NoKey
  ELSE IF dateISO.month = 4 THEN "apr"
  ELSE IF dateISO.month = 5 THEN "may"
  ELSE IF dateISO.month = 6 THEN "jun"
  ELSE IF dateISO.month = 7 THEN "jul"
  ELSE IF dateISO.month = 8 THEN "aug"
  ELSE NoKey

\* what the match m of the log contributes to the counters of player pid
Contribution(m, pid) ==
  LET t == computeFromSets(parseScore(m.score).sets)
      isP1 == pid = m.challengerPid
  IN  [f \in CounterFields |->
         IF pid \notin {m.challengerPid, m.opponentPid} THEN 0
         ELSE IF f = "matchesPlayed" THEN 1
         ELSE IF f = "matchesWon" THEN (IF DidWin(m.winnerId, isP1) THEN 1 ELSE 0)
         ELSE IF f = "setsWon" THEN SetsWonOf(t, isP1)
         ELSE IF f = "setsLost" THEN SetsLostOf(t, isP1)
         ELSE IF f = "gamesWon" THEN GamesWonOf(t, isP1)
         ELSE IF f = "gamesLost" THEN GamesLostOf(t, isP1)
         ELSE IF f = CalendarKey(m.date) THEN 1 ELSE 0]

RECURSIVE LogTotal(_, _)
LogTotal(ms, pid) ==
  IF ms = <<>> THEN [f \in CounterFields |-> 0]
  ELSE [f \in CounterFields |->
          Contribution(Head(ms), pid)[f] + LogTotal(Tail(ms), pid)[f]]

CountersOf(p) == [f \in CounterFields |-> p[f]]

\* C6: at every snapshot reached from the all-zero roster by Add, Delete and
\* Edit, each player's stored counters are the sum of the contributions of the
\* matches of the log the player takes part in: 1 played, 1 won if declared
\* winner, the sets and games of the stored score, 1 in the month bucket of the
\* match date.
C6_CountersReconcileWithLog ==
  \A i \in 1..Len(players) : CountersOf(players[i]) = LogTotal(matches, players[i].pid)

\* C7: every player counter is a non-negative integer in every snapshot, also
\* after a Delete or Edit has reversed a match whose contribution is larger
\* than the stored counter.
C7_CountersNeverNegative ==
  \A i \in 1..Len(players) : \A f \in CounterFields : players[i][f] \in Nat

\* a match of the log gave its challenger more games than the stored counter
\* now holds, and deleting it leaves that counter at 0
C7_Witness ==
  \E id \in MatchIds : \E i \in 1..Len(players) :
    LET m == matches[FindMatch(matches, id)]
    IN  /\ players[i].pid = m.challengerPid
        /\ players[i].gamesWon < Contribution(m, m.challengerPid)["gamesWon"]
        /\ deleteMatchConfirmed(players, matches, id).players[i].gamesWon = 0

\* the form has an empty score, an unreadable token or a score that fails
\* validation, or its opponent or challenger is missing or unnamed, or both are
\* the same player
BadAddForm(in) ==
  LET i1 == FindByPid(players, in.challengerPid)
      i2 == FindByPosition(players, in.matchPos)
  IN  \/ in.score \in BadScores
      \/ i2 = 0
      \/ i1 = 0
      \/ IsUnnamed(players[i2])
      \/ IsUnnamed(players[i1])
      \/ i1 = i2

AddRejections ==
  {MsgInvalidPosition, MsgOpponentNoName, MsgPickChallenger, MsgChallengerMissing,
   MsgSelf} \cup {MsgNoScore, MsgCouldntRead, MsgTwoSets, MsgNegative, MsgTiedSet,
                  MsgTieBreak, MsgImpossible, MsgTiedMatch}

\* C8: an Add whose score is empty, unreadable or invalid, whose opponent or
\* challenger is missing or unnamed, or whose two players are the same, is
\* rejected with an error and leaves players, matches and playerCount unchanged.
C8_RejectedAddChangesNothing ==
  /\ [](\A in \in AddAttemptForms :
          BadAddForm(in) =>
            LET out == AddOutcome(in)
            IN  out.error # "" /\ out.players = players /\ out.matches = matches)
  /\ [][(error' \in AddRejections /\ error' # error)
          => UNCHANGED <<players, matches, playerCount>>]_vars

\* an Add was rejected for its two players being the same, on a log that holds
\* a match
C8_Witness == error = MsgSelf /\ matches # <<>>

\* the reason parseScore or validateSets gives against a score
ScoreReason(score) ==
  LET parsed == parseScore(score)
  IN  IF ~parsed.valid THEN parsed.message ELSE validateSets(parsed.sets).message

\* C9: an Edit whose new score fails parsing or validation reports the
\* parser's or validator's reason and leaves positions, counters and the match
\* record, its ladderMoveApplied flag included, as they were.
C9_RejectedEditChangesNothing ==
  /\ [](\A in \in EditFormsWith(MatchIds, BadEntries) :
          LET out == EditOutcomeOf(in)
          IN  /\ ~out.thrown
              /\ out.error = ScoreReason(in.editScore)
              /\ out.error # ""
              /\ out.players = players
              /\ out.matches = matches)
  /\ [][(editError' \in {ScoreReason(score) : score \in BadScores} /\ editError' # editError)
          => UNCHANGED <<players, matches>>]_vars

\* an Edit of a match that moved the ladder was refused for its new score
C9_Witness ==
  /\ editError = ScoreReason(Score_65_64)
  /\ matches # <<>>
  /\ matches[1].ladderMoveApplied

\* C10: Add records ladderMoveApplied = true, and changes positions, exactly
\* when the declared winner is the challenger and the challenger's position
\* before the match is greater than the opponent's; otherwise no position
\* changes and ladderMoveApplied = false.
C10_MoveExactlyOnUpset ==
  [][Len(matches') = Len(matches) + 1 =>
       LET m == matches'[1]
           p1 == players[FindByPid(players, m.challengerPid)]
           p2 == players[FindByPid(players, m.opponentPid)]
           upset == m.winnerId = "p1" /\ p1.position > p2.position
       IN  /\ m.ladderMoveApplied = upset
           /\ upset <=> PositionsOf(players') # PositionsOf(players)]_vars

\* a challenger's win recorded as a move, the challenger now at the position
\* the opponent held
C10_Witness ==
  /\ Len(matches) = 1
  /\ matches[1].ladderMoveApplied
  /\ matches[1].winnerId = "p1"
  /\ players[FindByPid(players, matches[1].challengerPid)].position
       = matches[1].opponentStartPos

\* C11: applyLadderMove leaves the roster as it is, with applied = false, when
\* the challenger's position is <= target; otherwise the challenger gets the
\* target position, every other player in [target, challengerStart) gets
\* position + 1, every other player keeps its position, and applied = true.
C11_ApplyShiftsHalfOpenInterval ==
  harness.stage = "applied" =>
    LET c == harness.challengerPid
        t == harness.targetPosition
        start == harness.before[c]
    IN  IF start <= t
        THEN ~harness.applied /\ players = RosterAt(harness.before)
        ELSE /\ harness.applied
             /\ players =
                  RosterAt([i \in 1..LadderSize |->
                              IF i = c THEN t
                              ELSE IF harness.before[i] \in t..(start - 1)
                              THEN harness.before[i] + 1
                              ELSE harness.before[i]])

\* a move applied over an interval holding two other players, with a player
\* above it and a player below it
C11_Witness ==
  /\ harness.stage = "applied"
  /\ harness.applied
  /\ harness.before = <<1, 2, 3, 4>>
  /\ harness.challengerPid = 4
  /\ harness.targetPosition = 2
  /\ PositionsOf(players) = <<1, 3, 4, 2>>

\* C12: reverseLadderMove sets the challenger's position to challengerStart,
\* takes one off the position of every other player whose position is in
\* (opponentStart, challengerStart], and leaves every other position as it is,
\* wherever the challenger stands.
C12_ReverseShiftsHalfOpenInterval ==
  harness.stage = "reversed" =>
    players =
      RosterAt([i \in 1..LadderSize |->
                  IF i = harness.challengerPid THEN harness.startPosition
                  ELSE IF harness.before[i] \in
                            (harness.targetPosition + 1)..harness.startPosition
                  THEN harness.before[i] - 1
                  ELSE harness.before[i]])

\* a reversal with the challenger standing outside the interval it reverses,
\* which moved another player
C12_Witness ==
  /\ harness.stage = "reversed"
  /\ harness.before[harness.challengerPid] > harness.startPosition
  /\ \E i \in 1..LadderSize :
       i # harness.challengerPid /\ players[i].position = harness.before[i] - 1

\* C13: when the stored score of the match being deleted does not parse or
\* validate, Delete still removes the record from the log and still reverses
\* its ladder move if ladderMoveApplied is true (the challenger back at its
\* start position, the players it passed one up again), and every counter of
\* every player is as before.
C13_DeleteWithInvalidStoredScore ==
  (harness.stage = "deleted" /\ ~ScoreIsValid(harness.match.score)) =>
    LET m == harness.match
        b == harness.before
    IN  /\ m.id \notin MatchIds
        /\ Len(players) = Len(b)
        /\ \A i \in 1..Len(b) :
             /\ players[i].pid = b[i].pid
             /\ CountersOf(players[i]) = CountersOf(b[i])
             /\ players[i].position =
                  IF ~m.ladderMoveApplied THEN b[i].position
                  ELSE IF b[i].pid = m.challengerPid THEN m.challengerStartPos
                  ELSE IF /\ b[i].position > m.opponentStartPos
                          /\ b[i].position <= m.challengerStartPos
                  THEN b[i].position - 1
                  ELSE b[i].position

\* the stored match with an invalid score and an applied move was deleted: the
\* log is empty, the positions moved back, the counters of the match remain
C13_Witness ==
  /\ harness.stage = "deleted"
  /\ ~ScoreIsValid(harness.match.score)
  /\ harness.match.ladderMoveApplied
  /\ matches = <<>>
  /\ PositionsOf(players) # PositionsOf(harness.before)
  /\ \E i \in 1..Len(players) : players[i].matchesPlayed > 0

EditedAt(k) ==
  /\ Len(matches') = Len(matches)
  /\ matches'[k] # matches[k]
  /\ \A j \in 1..Len(matches) : matches'[j].id = matches[j].id

\* the edited record carries the positions its two players hold in the roster
\* `post`, and the move decision taken from them and the record's winner
FreshAgainst(edited, post) ==
  LET i1 == FindByPid(post, edited.challengerPid)
      i2 == FindByPid(post, edited.opponentPid)
  IN  /\ i1 # 0 /\ i2 # 0
      /\ edited.challengerStartPos = post[i1].position
      /\ edited.opponentStartPos = post[i2].position
      /\ edited.ladderMoveApplied =
           (edited.winnerId = "p1" /\ post[i1].position > post[i2].position)

\* C15: after a successful Edit, in both variants, the record's start
\* positions are the positions of its two players in the roster obtained by
\* reversing the original record's ladder move, and its ladderMoveApplied flag
\* is the move decision taken from those positions and the new winner.
C15_EditRecordsPostReversalPositions ==
  [][\A k \in 1..Len(matches) :
       EditedAt(k) => FreshAgainst(matches'[k], ReverseIfApplied(players, matches[k]))]_vars

\* the step was the transaction of the given kind that the harness records
Ran(kind) == harness' # harness /\ harness'.stage = kind

\* C16: the record Add writes carries the positions its two players held
\* before that Add's own ladder move, and an Add, Delete or Edit of another
\* match leaves every record of the log as it is, field by field.
C16_RecordsFrozen ==
  [][
     /\ Ran("added") =>
          LET m  == matches'[1]
              i1 == FindByPid(players, m.challengerPid)
              i2 == FindByPid(players, m.opponentPid)
          IN  /\ m.id = harness'.id
              /\ m.challengerStartPos = players[i1].position
              /\ m.opponentStartPos = players[i2].position
     /\ harness'.stage \in {"added", "deleted", "edited"} =>
          \A k \in 1..Len(matches) :
            matches[k].id # harness'.id =>
              \E j \in 1..Len(matches') : matches'[j] = matches[k]
    ]_vars

\* a match was edited while the log held another record, written by an Add
\* that moved its challenger up
C16_Witness ==
  /\ harness.stage = "edited"
  /\ \E k \in 1..Len(matches) :
       /\ matches[k].id # harness.id
       /\ matches[k].ladderMoveApplied
       /\ matches[k].challengerStartPos > matches[k].opponentStartPos

\* the step deleted the match the harness records
DeletedNow == harness'.stage = "deleted" /\ harness'.id \in MatchIds

\* the step edited the match the harness records
EditedNow ==
  /\ harness'.stage = "edited"
  /\ matches' # matches \/ players' # players \/ harness' # harness

\* C17: Delete, and the reversal step of Edit, change positions only when the
\* match's ladderMoveApplied flag is true: deleting a match whose flag is false
\* leaves every position as it is, and editing one leaves every position as it
\* is unless the edit itself applies a move, which then starts from the
\* positions as they were.
C17_PositionsMoveOnlyWhenFlagged ==
  [][
     /\ (DeletedNow /\ ~harness'.applied) =>
          PositionsOf(players') = PositionsOf(players)
     /\ (EditedNow /\ ~harness'.applied) =>
          LET k  == FindMatch(matches', harness'.id)
              m  == matches'[k]
              i2 == FindByPid(players, m.opponentPid)
          IN  PositionsOf(players') =
                IF m.ladderMoveApplied
                THEN PositionsOf(applyLadderMove(players, m.challengerPid,
                                                 players[i2].position).players)
                ELSE PositionsOf(players)
    ]_vars

\* a match whose flag was false has been deleted while the ladder stood moved
\* by another match
C17_Witness ==
  /\ harness.stage = "deleted"
  /\ ~harness.applied
  /\ harness.id \notin MatchIds
  /\ PositionsOf(players) # PositionsOf(defaultPlayers)

\* the elements of a sequence
Range(seq) == {seq[i] : i \in 1..Len(seq)}

\* C19: persisting a snapshot S with a successful saveState and then loading
\* with fetchCloudState returns a snapshot equivalent to S: the same
\* playerCount, the same players (pid, position, name, counters) and exactly
\* the match records of S, so that a match deleted before the save is not in
\* the loaded log.
C19_SaveThenLoadRoundTrip ==
  [][(harness' # harness /\ harness'.stage \in {"added", "deleted", "edited"}) =>
       \A loaded \in fetchCloudState(harness'.store) :
         /\ loaded.playerCount = playerCount'
         /\ Range(loaded.players) = Range(players')
         /\ Range(loaded.matches) = Range(matches')]_vars

\* C18: a match id enters the log only through Add, Edit neither adds nor
\* removes an id, Delete removes exactly the id it is given, and an id that was
\* deleted is never in the log again.
C18_MatchLifecycle ==
  [][
     /\ \A id \in MatchIds' \ MatchIds :
          harness'.stage = "added" /\ harness'.id = id
     /\ \A id \in MatchIds \ MatchIds' :
          harness'.stage = "deleted" /\ harness'.id = id
     /\ (harness' # harness /\ harness'.stage = "deleted") =>
          harness'.id \notin MatchIds'
     /\ MatchIds' \cap harness'.deleted = {}
    ]_vars

\* C20: with two clients writing through the shared store, once both saveState
\* calls have been answered ok the stored players, matches and playerCount are
\* those of the snapshot sent by the save answered last, with nothing left of
\* the earlier save.
C20_LastPersistWins ==
  (harness.stage = "saving" /\ Len(harness.answered) = 2) =>
    LET last == harness.requests[harness.answered[2]].payload
    IN  /\ harness.store.players = {PlayerRow(p) : p \in Range(last.players)}
        /\ Range(harness.store.matches) = {MatchRow(m) : m \in Range(last.matches)}
        /\ harness.store.playerCount = last.playerCount


\* the request is a POST whose pin is non-empty and equal to ADMIN_PIN
Authorized(req, adminPin) ==
  req.method = "POST" /\ req.pin \notin {Undefined, ""} /\ req.pin = adminPin

\* C21: the handler writes nothing to the players, matches or settings tables
\* unless the request is a POST whose pin is non-empty and equal to ADMIN_PIN;
\* a request that is not a POST gets 405, a POST with a missing or wrong pin
\* (also when ADMIN_PIN is unset) gets 401, and both leave the store as it was.
C21_OnlyAuthorizedRequestsWrite ==
  harness.stage = "answered" =>
    /\ harness.store # harness.before => Authorized(harness.request, harness.adminPin)
    /\ harness.request.method # "POST" =>
         harness.status = 405 /\ harness.store = harness.before
    /\ (harness.request.method = "POST"
          /\ ~Authorized(harness.request, harness.adminPin)) =>
         harness.status = 401 /\ harness.store = harness.before

\* with ADMIN_PIN unset, a well-formed saveState POST that would have changed
\* the store was answered 401
C21_Witness ==
  /\ harness.stage = "answered"
  /\ harness.adminPin = Undefined
  /\ harness.request.method = "POST"
  /\ harness.request.action = "saveState"
  /\ harness.request.arrays
  /\ saveState(harness.before, harness.request.payload) # harness.before
  /\ harness.status = 401
  /\ harness.store = harness.before

\* C22: while the application is locked nothing is editable: whatever the
\* order of unlock, lock, PIN entry, delete confirmation and edit save, no
\* step taken while locked is true changes players or matches.
C22_LockedNothingEditable ==
  [][locked => (players' = players /\ matches' = matches)]_vars

\* C23: a successful Add dated in April, May, June, July or August adds 1 to
\* exactly that month's bucket of the challenger and of the opponent and
\* changes no other bucket of any player; a successful Add dated in any other
\* month changes no bucket at all.
C23_AddCountsTheCalendarMonth ==
  [][nextId' = nextId + 1 =>
       LET m == matches'[1]
       IN  \A i \in 1..Len(players) : \A key \in MonthKeys :
             players'[i][key] =
               players[i][key]
                 + (IF /\ players[i].pid \in {m.challengerPid, m.opponentPid}
                       /\ key = CalendarKey(m.date)
                    THEN 1 ELSE 0)]_vars

\* a set with two non-negative unequal sides that is 6 to at most 4, 7 to 5 or
\* 6, or 10 and more with a margin of 2
LegalSet(s) ==
  LET hi == IF s.p1 > s.p2 THEN s.p1 ELSE s.p2
      lo == IF s.p1 > s.p2 THEN s.p2 ELSE s.p1
  IN  /\ s.p1 >= 0 /\ s.p2 >= 0 /\ s.p1 # s.p2
      /\ \/ hi = 6 /\ lo <= 4
         \/ hi = 7 /\ lo \in {5, 6}
         \/ hi >= 10 /\ hi - lo >= 2

\* C24: validateSets returns ok exactly for the sequences of at least 2 sets in
\* which every set is legal (two non-negative unequal sides, 6 to at most 4, or
\* 7 to 5 or 6, or 10 and more won by 2) and the two sides won a different
\* number of sets; every other sequence is rejected.
C24_ValidateSetsAcceptsExactlyLegalMatches ==
  harness.stage = "validated" =>
    (harness.ok <=>
       /\ Len(harness.sets) >= 2
       /\ \A i \in 1..Len(harness.sets) : LegalSet(harness.sets[i])
       /\ Cardinality({i \in 1..Len(harness.sets) : harness.sets[i].p1 > harness.sets[i].p2})
            # Cardinality({i \in 1..Len(harness.sets) :
                             harness.sets[i].p2 > harness.sets[i].p1}))

\* 7-6 6-7 10-7 was accepted
C24_Witness ==
  /\ harness.stage = "validated"
  /\ harness.ok
  /\ harness.sets = <<[p1 |-> 7, p2 |-> 6], [p1 |-> 6, p2 |-> 7], [p1 |-> 10, p2 |-> 7]>>

\* the whitespace-separated tokens of a score string
Tokens(score) == FilterNonEmpty(SplitOn(ReplaceAll(ReplaceAll(score, NL, SP), TAB, SP), SP))

Separators(tok) == {i \in 1..Len(tok) : tok[i] \in {"-", ":"}}

\* a field that is a number: a non-empty run of digits
IsNumberField(f) == f # <<>> /\ \A i \in 1..Len(f) : f[i] \in Digits

\* a token with exactly one separator between two number fields
ReadableToken(tok) ==
  /\ Cardinality(Separators(tok)) = 1
  /\ LET k == CHOOSE i \in Separators(tok) : TRUE
     IN  /\ IsNumberField(SubSeq(tok, 1, k - 1))
         /\ IsNumberField(SubSeq(tok, k + 1, Len(tok)))

SetOfToken(tok) ==
  LET k == CHOOSE i \in Separators(tok) : TRUE
  IN  [p1 |-> DecimalValue(SubSeq(tok, 1, k - 1)),
       p2 |-> DecimalValue(SubSeq(tok, k + 1, Len(tok)))]

\* C25: parseScore fails, naming the token, when a token has no separator, more
\* than one separator, or a field that is not a number (an empty field
\* included); when every token is readable it returns one set pair per token,
\* in input order.
C25_ParseScoreReadsExactlyTheReadableTokens ==
  harness.stage = "parsed" /\ Tokens(harness.score) # <<>> =>
    LET toks == Tokens(harness.score)
        res  == harness.parsed
    IN  IF \E i \in 1..Len(toks) : ~ReadableToken(toks[i])
        THEN /\ ~res.valid
             /\ res.message = MsgCouldntRead
             /\ \E i \in 1..Len(toks) : ~ReadableToken(toks[i]) /\ res.token = toks[i]
        ELSE /\ res.valid
             /\ res.sets = [i \in 1..Len(toks) |-> SetOfToken(toks[i])]


\* the games of one side summed over the sets of a score
RECURSIVE SideGames(_, _)
SideGames(sets, side) ==
  IF sets = <<>> THEN 0 ELSE Head(sets)[side] + SideGames(Tail(sets), side)

\* the sets one side took
SideSets(sets, side, other) ==
  Cardinality({k \in 1..Len(sets) : sets[k][side] > sets[k][other]})

\* C26: a successful Add increases matchesPlayed by 1 for both participants,
\* matchesWon by 1 for the declared winner only, the challenger's setsWon and
\* gamesWon and the opponent's setsLost and gamesLost by the first-side totals
\* of the score, the opponent's setsWon and gamesWon and the challenger's
\* setsLost and gamesLost by the second-side totals, and changes no counter of
\* any other player.
C26_AddCountsTheScore ==
  [][nextId' = nextId + 1 =>
       LET m     == matches'[1]
           sets  == parseScore(m.score).sets
           sets1 == SideSets(sets, "p1", "p2")
           sets2 == SideSets(sets, "p2", "p1")
           gms1  == SideGames(sets, "p1")
           gms2  == SideGames(sets, "p2")
           winnerPid == IF m.winnerId = "p1" THEN m.challengerPid ELSE m.opponentPid
       IN  \A i \in 1..Len(players) :
             LET p == players[i]
                 q == players'[i]
             IN  /\ q.pid = p.pid
                 /\ p.pid = m.challengerPid =>
                      /\ q.matchesPlayed = p.matchesPlayed + 1
                      /\ q.setsWon = p.setsWon + sets1
                      /\ q.gamesWon = p.gamesWon + gms1
                      /\ q.setsLost = p.setsLost + sets2
                      /\ q.gamesLost = p.gamesLost + gms2
                 /\ p.pid = m.opponentPid =>
                      /\ q.matchesPlayed = p.matchesPlayed + 1
                      /\ q.setsWon = p.setsWon + sets2
                      /\ q.gamesWon = p.gamesWon + gms2
                      /\ q.setsLost = p.setsLost + sets1
                      /\ q.gamesLost = p.gamesLost + gms1
                 /\ q.matchesWon = p.matchesWon + (IF p.pid = winnerPid THEN 1 ELSE 0)
                 /\ p.pid \notin {m.challengerPid, m.opponentPid} =>
                      \A f \in CounterFields : q[f] = p[f]]_vars

\* a second match was added, lost by its challenger, to a roster with a third
\* named player
C26_Witness ==
  /\ Len(matches) = 2
  /\ matches[1].winnerId = "p2"
  /\ players[FindByPid(players, matches[1].challengerPid)].matchesPlayed = 2
  /\ \E i \in 1..Len(players) :
       /\ players[i].pid \notin {matches[1].challengerPid, matches[1].opponentPid}
       /\ players[i].matchesPlayed = 1

\* C27: changing the active player count sets it to the requested value clamped
\* to 2..CAPACITY and leaves every player's fields and every match record
\* unchanged, so that shrinking the count and then growing it back shows the
\* same players with the same data as before.
C27_PlayerCountChangeIsFramed ==
  [][
     /\ harness' # harness /\ harness'.stage \in {"count", "shrunk", "regrown"} =>
          LET n == DecimalValue(harness'.requested)
          IN  /\ playerCount' = (IF n < 2 THEN 2 ELSE IF n > CAPACITY THEN CAPACITY ELSE n)
              /\ players' = players
              /\ matches' = matches
     /\ harness' # harness /\ harness'.stage = "regrown" =>
          visiblePlayers(players', playerCount') = harness'.shown
    ]_vars

\* the count was shrunk below a ladder with a match on it and grown back
C27_Witness ==
  /\ harness.stage = "regrown"
  /\ harness.count = CAPACITY
  /\ Len(matches) = 1
  /\ Len(harness.shown) = CAPACITY

\* C28: in the cloud variant, when the save fails after an Add, Delete or Edit,
\* the failure is reported as an error message and the in-memory snapshot stays
\* the post-transaction snapshot: the failure rolls nothing back.
C28_FailedSaveKeepsTheSnapshot ==
  [][
     /\ harness.stage = "pending" /\ harness'.stage = "failed" =>
          /\ players' = players
          /\ matches' = matches
          /\ playerCount' = playerCount
          /\ IF harness.kind = "edit" THEN editError' # "" ELSE error' # ""
     /\ harness.stage = "pending" /\ harness'.stage = "failed" /\ ~harness.reloaded =>
          Snapshot(playerCount', players', matches') = harness.post
    ]_vars

\* the save of an Edit that moved the ladder failed, with no load since
C28_Witness ==
  /\ harness.stage = "failed"
  /\ harness.kind = "edit"
  /\ ~harness.reloaded
  /\ harness.post.players # harness.pre.players
  /\ players # harness.pre.players
  /\ editError # ""

\* C29: once a transaction has been applied to the in-memory snapshot and its
\* save has failed or not yet completed, no realtime-triggered reload replaces
\* the in-memory snapshot with the stored one without an error or notice being
\* shown.
C29_NoSilentDiscard ==
  [][
     /\ harness.stage \in {"pending", "failed"}
     /\ harness'.reloaded /\ ~harness.reloaded
     /\ Snapshot(playerCount', players', matches') # harness.post
     => error' # "" \/ editError' # ""
    ]_vars

\* positions and counters of every player of a roster
Standing(ps) ==
  [i \in 1..Len(ps) |->
     [pid |-> ps[i].pid, position |-> ps[i].position, counters |-> CountersOf(ps[i])]]

EditThenDeleteIsDelete(in) ==
  LET edit   == EditOutcomeOf(in)
      after  == deleteMatchConfirmed(edit.players, edit.matches, in.editId)
      direct == deleteMatchConfirmed(players, matches, in.editId)
  IN  (edit.error = "" /\ ~edit.thrown)
        => Standing(after.players) = Standing(direct.players)

\* C30: in both variants, editing a match and then deleting it leaves every
\* player's position and counters as deleting the original match directly
\* would have left them, also when the Edit changed whether a ladder move
\* applies.
C30_EditThenDeleteIsDelete ==
  \A in \in EditFormsWith(MatchIds, ValidEntries) : EditThenDeleteIsDelete(in)


\* C31: a Delete or Edit that names a match id not present in the log changes
\* nothing in players, matches or playerCount.
C31_MissingTargetChangesNothing ==
  [][harness'.tries = harness.tries + 1 =>
       /\ players' = players
       /\ matches' = matches
       /\ playerCount' = playerCount]_vars

\* an Edit was tried on a deleted id while another match, which moved the
\* ladder, is in the log
C31_Witness ==
  /\ harness.stage = "edit"
  /\ harness.id = 1
  /\ Len(matches) = 1
  /\ matches[1].id = 2
  /\ matches[1].ladderMoveApplied

\* C32: a successful Edit keeps the record's id, challenger and opponent, keeps
\* the number and order of the records of the log, and changes no other
\* record; a successful Add puts exactly one new record in the log and changes
\* no existing record.
C32_LogShapeUnderEditAndAdd ==
  [][
     /\ harness'.stage = "edited" =>
          /\ Len(matches') = Len(matches)
          /\ \A k \in 1..Len(matches) :
               /\ matches'[k].id = matches[k].id
               /\ matches'[k].challengerPid = matches[k].challengerPid
               /\ matches'[k].opponentPid = matches[k].opponentPid
               /\ matches[k].id # harness'.id => matches'[k] = matches[k]
     /\ Ran("added") =>
          /\ Len(matches') = Len(matches) + 1
          /\ matches'[1].id \notin MatchIds
          /\ \A k \in 1..Len(matches) : matches'[k + 1] = matches[k]
    ]_vars

\* the older of two records was edited, to another winner
C32_Witness ==
  /\ harness.stage = "edited"
  /\ Len(matches) = 2
  /\ matches[2].id = harness.id
  /\ matches[2].id = 1
  /\ matches[2].winnerId = "p2"
  /\ matches[2].score = Trim(Score_46_67)

\* the player is named and stands within the active positions of the count
ActiveNamed(ps, pc, pid) ==
  LET i == FindByPid(ps, pid)
  IN  /\ i # 0
      /\ ~IsUnnamed(ps[i])
      /\ ps[i].position >= 1
      /\ ps[i].position <= pc

\* C33: no match is recorded with a participant who, at the moment of the Add,
\* is unnamed or holds a position outside 1..playerCount, for every sequence of
\* name edits, player-count changes, challenger selections and Adds.
C33_ParticipantsAreActiveAndNamed ==
  [][nextId' = nextId + 1 =>
       /\ ActiveNamed(players, playerCount, matches'[1].challengerPid)
       /\ ActiveNamed(players, playerCount, matches'[1].opponentPid)]_vars


\* the maximal runs of characters other than space, newline and tab, in order;
\* cur is the run being read
RECURSIVE RunsOf(_, _)
RunsOf(s, cur) ==
  IF s = <<>> THEN (IF cur = <<>> THEN <<>> ELSE <<cur>>)
  ELSE IF Head(s) \in {SP, NL, TAB}
       THEN (IF cur = <<>> THEN <<>> ELSE <<cur>>) \o RunsOf(Tail(s), <<>>)
       ELSE RunsOf(Tail(s), Append(cur, Head(s)))

\* C34: parseScore treats every run of spaces, newlines and tabs as one token
\* separator, and fails with the no-score reason when the input is empty after
\* trimming.
C34_WhitespaceRunsSeparateTokens ==
  harness.stage = "parsed" =>
    LET toks == RunsOf(harness.score, <<>>)
    IN  IF toks = <<>>
        THEN ~harness.parsed.valid /\ harness.parsed.message = MsgNoScore
        ELSE /\ harness.parsed = ParseParts(toks, <<>>)
             /\ harness.parsed.valid => Len(harness.parsed.sets) = Len(toks)

\* 6-4, a newline, 6-4 was read as two sets
C34_Witness ==
  /\ harness.stage = "parsed"
  /\ harness.score = <<"6", "-", "4", NL, "6", "-", "4">>
  /\ harness.parsed.valid
  /\ Len(harness.parsed.sets) = 2

\* the side that took more sets of the record's stored score, "" on a tie
SetsWinner(m) ==
  LET sets == parseScore(m.score).sets
      s1   == SideSets(sets, "p1", "p2")
      s2   == SideSets(sets, "p2", "p1")
  IN  IF s1 > s2 THEN "p1" ELSE IF s2 > s1 THEN "p2" ELSE ""

\* C35 as claimed: for every record of the log, the declared winner is the side
\* that won more sets of the stored score, read from the challenger's side.
C35_WinnerAgreesWithScore ==
  \A k \in 1..Len(matches) : matches[k].winnerId = SetsWinner(matches[k])

\* C35 as amended: the record Add or Edit stores carries the winner declared in
\* the form, and a score, the one typed, in which one side took more sets than
\* the other; the declared winner is not compared with that side.
C35_WinnerIsAsDeclared ==
  harness.stage \in {"added", "edited"} =>
    LET k == FindMatch(matches, harness.id)
    IN  /\ k # 0
        /\ matches[k].winnerId = harness.winner
        /\ matches[k].score = Trim(harness.score)
        /\ SetsWinner(matches[k]) \in {"p1", "p2"}

\* an Edit declared the opponent the winner of 6-4 6-3
C35_Witness ==
  /\ harness.stage = "edited"
  /\ harness.winner = "p2"
  /\ harness.score = Score_64_63
  /\ matches[FindMatch(matches, harness.id)].winnerId = "p2"
  /\ SetsWinner(matches[FindMatch(matches, harness.id)]) = "p1"

\* C36: when matches are deleted in the reverse order of their addition, each
\* Delete restores exactly the positions and counters that held just before
\* the corresponding Add.
C36_LastFirstDeleteRestores ==
  [][Len(harness'.stack) = Len(harness.stack) - 1 =>
       /\ StandingOf(players') = Head(harness.stack)
       /\ matches' = Tail(matches)]_vars

\* two Adds were undone, last first, back to the initial order
C36_Witness ==
  /\ harness.stage = "deleted"
  /\ harness.stack = <<>>
  /\ nextId = 2
  /\ matches = <<>>
  /\ \A i \in 1..Len(players) : players[i].position = i

\* C37: when several realtime-triggered reloads are in flight at once, after
\* all of them have completed the in-memory snapshot is the result of the
\* fetch that was started last.
C37_LastStartedLoadWins ==
  (/\ Len(harness.loads) >= 2
   /\ \A i \in 1..Len(harness.loads) : harness.loads[i].stage = "done")
    => Snapshot(playerCount, players, matches) = harness.loads[Len(harness.loads)].result

\* C38: saveState is all-or-nothing at the store: when the request ends with an
\* error response, none of the submitted players, matches or playerCount has
\* been written.
C38_FailedSaveWritesNothing ==
  [][harness.stage = "pending" /\ harness'.stage = "failed" =>
       harness'.store = harness.store]_vars
=============================================================================
